---- MODULE Spec2Model ----
(***************************************************************************)
(* A model of the JIRA MCP server (Deno variant): the tool handlers of     *)
(* server.ts, the REST client of jira-client.ts and the in-memory logger   *)
(* of logger.ts.                                                           *)
(*                                                                         *)
(* A JavaScript string is modelled as a Text: the sequence of the pieces   *)
(* its template literal concatenates, so `Error: ${msg}` is                *)
(* <<"Error: ">> \o msg.  A handler runs without interruption between two  *)
(* awaits of the network, so each action is one such run.                  *)
(***************************************************************************)
EXTENDS Integers, Sequences, FiniteSets, TLC

VARIABLES
    debugLevel,   \* Logger.debugLevel, fixed by the constructor
    logs,         \* Logger.logs
    inv,          \* the tool invocations: position, arguments, response
    requests,     \* the HTTP exchanges seen by upstream, in the order sent
    env,          \* the environment variables and command-line flags of the run
    proc          \* the server process: phase, configuration, tools, transport

vars == <<debugLevel, logs, inv, requests, env, proc>>

(***************************************************************************)
(* JavaScript values.                                                      *)
(***************************************************************************)
Undefined == "<undefined>"
Null == "<null>"
UndefinedObj == [tag |-> "undefined"]
NullObj == [tag |-> "null"]

\* what `${s}` yields for a string slot that may hold undefined or null
TemplateStr(s) ==
    IF s = Undefined THEN "undefined" ELSE IF s = Null THEN "null" ELSE s

\* a string slot is falsy when undefined, null or empty
Falsy(s) == s \in {Undefined, Null, ""}

\* the message of the TypeError of reading property prop of undefined/null
TypeErrorMessage(tag, prop) ==
    <<"Cannot read properties of ", tag, " (reading '", prop, "')">>

(***************************************************************************)
(* logger.ts                                                               *)
(***************************************************************************)
LogLevels == <<"debug", "info", "warning", "error">>

\* Array.prototype.indexOf: zero-based, -1 when absent
IndexOf(seq, x) ==
    IF \E k \in 1..Len(seq) : seq[k] = x
    THEN (CHOOSE k \in 1..Len(seq) : seq[k] = x) - 1
    ELSE 0 - 1

\* a threshold that lets through only the levels strictly above it
shouldLogAbove(level) == IndexOf(LogLevels, level) > IndexOf(LogLevels, debugLevel)

shouldLog(level) == IndexOf(LogLevels, level) >= IndexOf(LogLevels, debugLevel)

\* an entry put at the head of the list
createLogEntryFirst(lg, level, message, details) ==
    <<[level |-> level, message |-> message, details |-> details]>> \o lg

\* the entry's id (a random UUID) and timestamp are left out
createLogEntry(lg, level, message, details) ==
    Append(lg, [level |-> level, message |-> message, details |-> details])

LogDebug(lg, message, details) ==
    IF shouldLog("debug") THEN createLogEntry(lg, "debug", message, details) ELSE lg

LogInfo(lg, message, details) ==
    IF shouldLog("info") THEN createLogEntry(lg, "info", message, details) ELSE lg

LogWarning(lg, message, details) ==
    IF shouldLog("warning") THEN createLogEntry(lg, "warning", message, details) ELSE lg

LogError(lg, message, details) ==
    IF shouldLog("error") THEN createLogEntry(lg, "error", message, details) ELSE lg

NoDetails == [none |-> TRUE]

(***************************************************************************)
(* Configuration (config.ts): loaded once at startup.  These are the       *)
(* values the environment holds when JIRA_MCP_URL and JIRA_MCP_TOKEN are   *)
(* set.                                                                    *)
(***************************************************************************)
JIRA_MCP_URL == "https://jira.example.com"
JIRA_MCP_TOKEN == "pat-token"

\* a tool can be called once it is registered and the transport is started
Callable(tool) == proc.phase = "serving" /\ tool \in proc.tools

(***************************************************************************)
(* jira-client.ts: makeRequest                                             *)
(***************************************************************************)
NoReply == [net |-> "pending"]
NoBody == [tag |-> "undefined"]

RequestUrl(endpoint) == <<proc.config.JIRA_MCP_URL, "/rest/api/2/">> \o endpoint

\* headers sending the credential under the Basic scheme
RequestHeadersBasic ==
    [Authorization |-> <<"Basic ", proc.config.JIRA_MCP_TOKEN>>,
     ContentType |-> "application/json",
     Accept |-> "application/json"]

RequestHeaders ==
    [Authorization |-> <<"Bearer ", proc.config.JIRA_MCP_TOKEN>>,
     ContentType |-> "application/json",
     Accept |-> "application/json"]

\* a request sent without the diagnostic of line 26
MakeRequestSendSilent(lg, i, endpoint, method, body) ==
    LET url == RequestUrl(endpoint) IN
    [logs |-> lg,
     request |-> [inv |-> i, method |-> method, url |-> url,
                  headers |-> RequestHeaders, body |-> body, reply |-> NoReply]]

\* lines 14-29: up to the fetch. The result holds the log and the request sent.
MakeRequestSend(lg, i, endpoint, method, body) ==
    LET url == RequestUrl(endpoint) IN
    [logs |-> LogDebug(lg, <<"Making JIRA API request">>, [url |-> url, method |-> method]),
     request |-> [inv |-> i, method |-> method, url |-> url,
                  headers |-> RequestHeaders, body |-> body, reply |-> NoReply]]

\* response.ok
ResponseOk(reply) == reply.status >= 200 /\ reply.status <= 299

\* response.text() of a body
BodyText(body) == IF body.kind = "empty" THEN "" ELSE body.raw

\* line 33 with the response body left out of the message
ApiErrorMessageNoBody(reply) ==
    <<"JIRA API error: ", ToString(reply.status), " ", reply.statusText>>

\* line 33
ApiErrorMessage(reply) ==
    <<"JIRA API error: ", ToString(reply.status), " ", reply.statusText, " - ",
      BodyText(reply.body)>>

\* line 42
RequestFailedMessage(cause) == <<"JIRA API request failed: ">> \o cause

\* the message of the SyntaxError response.json() throws on a body that is no JSON
JsonSyntaxError(body) ==
    IF body.kind = "empty" THEN <<"Unexpected end of JSON input">>
    ELSE <<"Unexpected token '<', \"", body.raw, "\" is not valid JSON">>

Thrown(lg, message) == [ok |-> FALSE, error |-> message, logs |-> lg]
Returned(lg, value) == [ok |-> TRUE, value |-> value, logs |-> lg]

\* line 41-45: the catch block of makeRequest
MakeRequestCatch(lg, url, cause) ==
    LET errorMessage == RequestFailedMessage(cause) IN
    Thrown(LogError(lg, errorMessage, [url |-> url, error |-> cause]), errorMessage)

\* lines 29-45: from the settled fetch to the return or throw
MakeRequestReceive(lg, url, reply) ==
    IF reply.net = "fail" THEN MakeRequestCatch(lg, url, <<reply.cause>>)
    ELSE IF ~ResponseOk(reply)
    THEN LET error == ApiErrorMessage(reply) IN
         \* thrown inside the try, so the catch block of line 41 handles it too
         MakeRequestCatch(LogError(lg, error, [url |-> url, status |-> reply.status]),
                          url, error)
    ELSE IF reply.body.kind # "json"
    THEN MakeRequestCatch(lg, url, JsonSyntaxError(reply.body))
    ELSE Returned(LogDebug(lg, <<"JIRA API response received">>,
                           [url |-> url, status |-> reply.status]),
                  reply.body.value)

(***************************************************************************)
(* jira-client.ts: getIssue                                                *)
(***************************************************************************)
\* obj?.prop of an optional object holding one string property
OptionalChain(obj, prop) == IF obj.tag = "obj" THEN obj[prop] ELSE Undefined

\* a || fallback on a string slot
OrElse(s, fallback) == IF Falsy(s) THEN fallback ELSE s

\* lines 55-62 with ?? in place of ||: only an absent name is defaulted
IssueSummaryNullish(issue) ==
    LET Nullish(s, fallback) == IF s \in {Undefined, Null} THEN fallback ELSE s IN
    [key |-> issue.key,
     summary |-> issue.fields.summary,
     status |-> issue.fields.status.name,
     assignee |-> Nullish(OptionalChain(issue.fields.assignee, "displayName"), "Unassigned"),
     priority |-> Nullish(OptionalChain(issue.fields.priority, "name"), "None"),
     reporter |-> Nullish(OptionalChain(issue.fields.reporter, "displayName"), "Unknown")]

\* lines 55-62: the six-property projection of an issue
IssueSummaryOf(issue) ==
    [key |-> issue.key,
     summary |-> issue.fields.summary,
     status |-> issue.fields.status.name,
     assignee |-> OrElse(OptionalChain(issue.fields.assignee, "displayName"), "Unassigned"),
     priority |-> OrElse(OptionalChain(issue.fields.priority, "name"), "None"),
     reporter |-> OrElse(OptionalChain(issue.fields.reporter, "displayName"), "Unknown")]

\* the TypeError, if any, of evaluating issue.fields.summary (<<>>: none)
FieldsReadError(issue) ==
    IF issue.tag # "obj" THEN TypeErrorMessage(issue.tag, "fields")
    ELSE IF issue.fields.tag # "obj" THEN TypeErrorMessage(issue.fields.tag, "summary")
    ELSE <<>>

\* the TypeError, if any, of evaluating issue.fields.status.name
StatusReadError(issue) ==
    IF issue.fields.status.tag # "obj"
    THEN TypeErrorMessage(issue.fields.status.tag, "name")
    ELSE <<>>

IssueEndpoint(issueKey) == <<"issue/", TemplateStr(issueKey)>>

\* lines 49-51: up to the fetch
GetIssueSend(lg, i, issueKey) ==
    MakeRequestSend(LogInfo(lg, <<"Fetching JIRA issue">>, [issueKey |-> issueKey]),
                    i, IssueEndpoint(issueKey), "GET", NoBody)

\* lines 63-66: the catch block of getIssue
GetIssueCatch(lg, issueKey, error) ==
    Thrown(LogError(lg, <<"Failed to fetch JIRA issue">>,
                    [issueKey |-> issueKey, error |-> error]), error)

\* lines 51-66: from the settled fetch to the return or throw
GetIssueReceive(lg, issueKey, reply) ==
    LET r == MakeRequestReceive(lg, RequestUrl(IssueEndpoint(issueKey)), reply) IN
    IF ~r.ok THEN GetIssueCatch(r.logs, issueKey, r.error)
    ELSE LET issue == r.value IN
         IF FieldsReadError(issue) # <<>>
         THEN GetIssueCatch(r.logs, issueKey, FieldsReadError(issue))
         ELSE LET lg2 == LogInfo(r.logs, <<"Successfully fetched JIRA issue">>,
                                 [issueKey |-> issueKey, summary |-> issue.fields.summary])
              IN IF StatusReadError(issue) # <<>>
                 THEN GetIssueCatch(lg2, issueKey, StatusReadError(issue))
                 ELSE Returned(lg2, IssueSummaryOf(issue))

(***************************************************************************)
(* server.ts: what every execute handler shares                            *)
(***************************************************************************)
NoResponse == [kind |-> "none"]
TextResponse(text) == [kind |-> "text", text |-> text]
JsonResponse(json) == [kind |-> "json", json |-> json]

\* JSON.stringify of an object of string slots: an undefined property is left out
JsonStringify(obj) == [k \in {p \in DOMAIN obj : obj[p] # Undefined} |-> obj[k]]

\* an execute handler whose catch block logs and throws again
ExecuteCatchRethrow(lg, tool, errorMsg) ==
    [logs |-> LogError(lg, <<"Error in ", tool, ": ">> \o errorMsg, NoDetails),
     resp |-> [kind |-> "fault", error |-> errorMsg]]

\* the catch block of an execute handler, e.g. lines 55-59
ExecuteCatch(lg, tool, errorMsg) ==
    [logs |-> LogError(lg, <<"Error in ", tool, ": ">> \o errorMsg, NoDetails),
     resp |-> TextResponse(<<"Error: ">> \o errorMsg)]

\* the invocations the server has been handed
Invocations == DOMAIN inv

\* the callers of a run in which one invocation is made
OneCaller == {1}

Idle == [pc |-> "idle", tool |-> "none", resp |-> NoResponse]

\* the oldest exchange that awaits a reply, whichever invocation sent it
PendingOldest(i) ==
    CHOOSE k \in 1..Len(requests) :
        /\ requests[k].reply = NoReply
        /\ \A m \in 1..(k - 1) : requests[m].reply # NoReply

\* the exchange of invocation i that awaits its reply
Pending(i) ==
    CHOOSE k \in 1..Len(requests) : requests[k].inv = i /\ requests[k].reply = NoReply

Settle(i, reply) == [requests EXCEPT ![Pending(i)].reply = reply]

(***************************************************************************)
(* What upstream may answer.                                               *)
(***************************************************************************)
EmptyBody == [kind |-> "empty"]
TextBody(raw) == [kind |-> "text", raw |-> raw]
JsonBody(value) == [kind |-> "json", raw |-> "<json>", value |-> value]

NetworkFailure == [net |-> "fail", cause |-> "Connection refused"]
HttpReply(status, statusText, body) ==
    [net |-> "ok", status |-> status, statusText |-> statusText, body |-> body]

\* answers any endpoint may give: no response at all, an error status, or a
\* success status whose body is empty or is no JSON
CommonReplies ==
    {NetworkFailure,
     HttpReply(404, "Not Found", TextBody("{\"errorMessages\":[\"Issue Does Not Exist\"]}")),
     HttpReply(500, "Internal Server Error", EmptyBody),
     HttpReply(204, "No Content", EmptyBody),
     HttpReply(200, "OK", TextBody("<html>"))}

UserObj(name) == [tag |-> "obj", displayName |-> name]
NameObj(name) == [tag |-> "obj", name |-> name]

IssueFields(summary, status, assignee, priority, reporter) ==
    [tag |-> "obj", summary |-> summary, status |-> status, assignee |-> assignee,
     priority |-> priority, reporter |-> reporter]

IssueObj(key, fields) == [tag |-> "obj", key |-> key, fields |-> fields]

\* issues as JIRA sends them: the three optional objects absent, null, or present
WellFormedIssues ==
    {IssueObj("PROJ-1", IssueFields("Fix login", NameObj("Open"), a, p, r)) :
        a \in {UndefinedObj, NullObj, UserObj(""), UserObj("Alice")},
        p \in {UndefinedObj, NameObj(""), NameObj("High")},
        r \in {UndefinedObj, UserObj(""), UserObj("Bob")}}

\* payloads that are JSON but lack what the JiraIssue type promises
MalformedIssues ==
    {NullObj,
     IssueObj("PROJ-1", UndefinedObj),
     IssueObj("PROJ-1", IssueFields("Fix login", UndefinedObj, UndefinedObj, UndefinedObj, UndefinedObj)),
     IssueObj("PROJ-1", IssueFields("Fix login", NameObj(Undefined), UndefinedObj, UndefinedObj, UndefinedObj)),
     IssueObj("PROJ-1", IssueFields(Undefined, NameObj("Open"), UndefinedObj, UndefinedObj, UndefinedObj)),
     IssueObj(Undefined, IssueFields("Fix login", NameObj("Open"), UndefinedObj, UndefinedObj, UndefinedObj))}

IssuePayloads == WellFormedIssues \cup MalformedIssues

IssueReplies == CommonReplies \cup {HttpReply(200, "OK", JsonBody(p)) : p \in IssuePayloads}

(***************************************************************************)
(* server.ts: jira_get_issue                                               *)
(***************************************************************************)
IssueKeys == {"PROJ-1"}

GetIssueArgs == [issueKey : IssueKeys]

\* lines 51-53
JiraGetIssue(i, args) ==
    /\ Callable("jira_get_issue")
    /\ inv[i].pc = "idle"
    /\ LET s == GetIssueSend(logs, i, args.issueKey) IN
       /\ logs' = s.logs
       /\ requests' = Append(requests, s.request)
       /\ inv' = [inv EXCEPT ![i] = [pc |-> "fetch", tool |-> "jira_get_issue",
                                     args |-> args, resp |-> NoResponse]]
    /\ UNCHANGED <<debugLevel, env, proc>>

\* lines 53-59 with a rejected fetch left unhandled: the handler never settles
GetIssueResponseHangs(i, reply) ==
    /\ inv[i].pc = "fetch"
    /\ inv[i].tool = "jira_get_issue"
    /\ IF reply.net = "fail"
       THEN /\ inv' = [inv EXCEPT ![i].pc = "hung"]
            /\ UNCHANGED logs
       ELSE LET r == GetIssueReceive(logs, inv[i].args.issueKey, reply)
                out == IF r.ok
                       THEN [logs |-> r.logs, resp |-> JsonResponse(JsonStringify(r.value))]
                       ELSE ExecuteCatch(r.logs, "jira_get_issue", r.error)
            IN /\ logs' = out.logs
               /\ inv' = [inv EXCEPT ![i].pc = "done", ![i].resp = out.resp]
    /\ requests' = Settle(i, reply)
    /\ UNCHANGED <<debugLevel, env, proc>>

\* lines 53-59
GetIssueResponse(i, reply) ==
    /\ inv[i].pc = "fetch"
    /\ inv[i].tool = "jira_get_issue"
    /\ LET r == GetIssueReceive(logs, inv[i].args.issueKey, reply)
           out == IF r.ok
                  THEN [logs |-> r.logs, resp |-> JsonResponse(JsonStringify(r.value))]
                  ELSE ExecuteCatch(r.logs, "jira_get_issue", r.error)
       IN /\ logs' = out.logs
          /\ inv' = [inv EXCEPT ![i].pc = "done", ![i].resp = out.resp]
    /\ requests' = Settle(i, reply)
    /\ UNCHANGED <<debugLevel, env, proc>>

(***************************************************************************)
(* jira-client.ts: searchIssues; server.ts: jira_search                    *)
(***************************************************************************)
MaxIssues == 2

\* encodeURIComponent on a string given as its pieces: a piece is a run of
\* unreserved characters or one reserved character, which is escaped
EncodeChar(c) ==
    CASE c = " " -> "%20"
      [] c = "=" -> "%3D"
      [] c = "&" -> "%26"
      [] c = "/" -> "%2F"
      [] c = "?" -> "%3F"
      [] c = "#" -> "%23"
      [] OTHER -> c

EncodeURIComponent(str) == [k \in 1..Len(str) |-> EncodeChar(str[k])]

\* jira-client.ts line 72
SearchEndpoint(jql, startAt, maxResults) ==
    <<"search?jql=">> \o EncodeURIComponent(jql)
        \o <<"&startAt=", ToString(startAt), "&maxResults=", ToString(maxResults)>>

\* z.number().optional() with the .default(d) left out
ZodOptional(opt, d) == IF opt = <<>> THEN Undefined ELSE opt[1]

\* z.number().optional().default(d): an absent argument (<<>>) becomes d
ZodDefault(opt, d) == IF opt = <<>> THEN d ELSE opt[1]

DefaultStartAt == 0
DefaultMaxResults == 50

\* server.ts lines 67-71: the parsed arguments of jira_search
SearchParse(raw) ==
    [jql |-> raw.jql,
     startAt |-> ZodDefault(raw.startAt, DefaultStartAt),
     maxResults |-> ZodDefault(raw.maxResults, DefaultMaxResults)]

\* jira-client.ts lines 70-72
SearchIssuesSend(lg, i, jql, startAt, maxResults) ==
    MakeRequestSend(LogInfo(lg, <<"Searching JIRA issues">>,
                            [jql |-> jql, startAt |-> startAt, maxResults |-> maxResults]),
                    i, SearchEndpoint(jql, startAt, maxResults), "GET", NoBody)

\* jira-client.ts lines 75-78
SearchIssuesCatch(lg, jql, error) ==
    Thrown(LogError(lg, <<"Failed to search JIRA issues">>, [jql |-> jql, error |-> error]),
           error)

\* the TypeError, if any, of evaluating result.total and result.issues.length
ResultReadError(result) ==
    IF result.tag # "obj" THEN TypeErrorMessage(result.tag, "total")
    ELSE IF result.issues.tag # "arr" THEN TypeErrorMessage(result.issues.tag, "length")
    ELSE <<>>

\* jira-client.ts lines 72-78
SearchIssuesReceive(lg, args, reply) ==
    LET url == RequestUrl(SearchEndpoint(args.jql, args.startAt, args.maxResults))
        r == MakeRequestReceive(lg, url, reply)
    IN IF ~r.ok THEN SearchIssuesCatch(r.logs, args.jql, r.error)
       ELSE IF ResultReadError(r.value) # <<>>
       THEN SearchIssuesCatch(r.logs, args.jql, ResultReadError(r.value))
       ELSE Returned(LogInfo(r.logs, <<"Successfully searched JIRA issues">>,
                             [jql |-> args.jql, total |-> r.value.total,
                              returned |-> Len(r.value.issues.items)]),
                     r.value)

\* the TypeError, if any, of the arrow function of server.ts lines 80-87
SearchIssueReadError(issue) ==
    IF issue.tag # "obj" THEN TypeErrorMessage(issue.tag, "key")
    ELSE IF FieldsReadError(issue) # <<>> THEN FieldsReadError(issue)
    ELSE StatusReadError(issue)

\* server.ts lines 80-87: the projection jira_search applies to each issue
SearchIssueSummaryOf(issue) ==
    [key |-> issue.key,
     summary |-> issue.fields.summary,
     status |-> issue.fields.status.name,
     assignee |-> OrElse(OptionalChain(issue.fields.assignee, "displayName"), "Unassigned"),
     priority |-> OrElse(OptionalChain(issue.fields.priority, "name"), "None"),
     reporter |-> OrElse(OptionalChain(issue.fields.reporter, "displayName"), "Unknown")]

\* a summary listing the issues last to first
SearchSummaryReversed(lg, result) ==
    LET items == result.issues.items
        bad == {k \in 1..Len(items) : SearchIssueReadError(items[k]) # <<>>}
    IN IF bad # {}
       THEN Thrown(lg, SearchIssueReadError(items[CHOOSE k \in bad : \A m \in bad : k <= m]))
       ELSE Returned(lg, [total |-> result.total,
                          startAt |-> result.startAt,
                          maxResults |-> result.maxResults,
                          issues |-> [k \in 1..Len(items) |->
                                         JsonStringify(SearchIssueSummaryOf(
                                             items[Len(items) + 1 - k]))]])

\* server.ts lines 76-89: the summary object and its JSON text, or the TypeError
SearchSummary(lg, result) ==
    LET items == result.issues.items
        bad == {k \in 1..Len(items) : SearchIssueReadError(items[k]) # <<>>}
    IN IF bad # {}
       THEN Thrown(lg, SearchIssueReadError(items[CHOOSE k \in bad : \A m \in bad : k <= m]))
       ELSE Returned(lg, [total |-> result.total,
                          startAt |-> result.startAt,
                          maxResults |-> result.maxResults,
                          issues |-> [k \in 1..Len(items) |->
                                         JsonStringify(SearchIssueSummaryOf(items[k]))]])

Jqls == {<<"project", " ", "=", " ", "PROJ">>, <<"a", "&", "maxResults", "=", "9">>}

SearchArgs == [jql : Jqls, startAt : {<<>>, <<10>>}, maxResults : {<<>>, <<5>>}]

ArrayOf(items) == [tag |-> "arr", items |-> items]

SearchResultObj(issues) ==
    [tag |-> "obj", total |-> 7, startAt |-> 1, maxResults |-> 2, issues |-> issues]

\* the issues a search answer is drawn from: complete, bare, and malformed
SearchIssueSamples ==
    {IssueObj("PROJ-1", IssueFields("Fix login", NameObj("Open"), UserObj("Alice"),
                                    NameObj("High"), UserObj("Bob"))),
     IssueObj("PROJ-2", IssueFields("Add logout", NameObj("Done"), NullObj,
                                    UndefinedObj, UserObj(""))),
     IssueObj("PROJ-3", IssueFields("No status", UndefinedObj, UndefinedObj,
                                    UndefinedObj, UndefinedObj))}

SeqsUpTo(S, n) == UNION {[1..m -> S] : m \in 0..n}

SearchPayloads ==
    {SearchResultObj(ArrayOf(items)) : items \in SeqsUpTo(SearchIssueSamples, MaxIssues)}
        \cup {SearchResultObj(UndefinedObj), NullObj}

SearchReplies == CommonReplies \cup {HttpReply(200, "OK", JsonBody(p)) : p \in SearchPayloads}

\* server.ts lines 72-74
JiraSearch(i, raw) ==
    /\ Callable("jira_search")
    /\ inv[i].pc = "idle"
    /\ LET args == SearchParse(raw)
           s == SearchIssuesSend(logs, i, args.jql, args.startAt, args.maxResults)
       IN /\ logs' = s.logs
          /\ requests' = Append(requests, s.request)
          /\ inv' = [inv EXCEPT ![i] = [pc |-> "fetch", tool |-> "jira_search",
                                        raw |-> raw, args |-> args, resp |-> NoResponse]]
    /\ UNCHANGED <<debugLevel, env, proc>>

\* server.ts lines 74-94
SearchResponse(i, reply) ==
    /\ inv[i].pc = "fetch"
    /\ inv[i].tool = "jira_search"
    /\ LET r == SearchIssuesReceive(logs, inv[i].args, reply)
           sum == IF r.ok THEN SearchSummary(r.logs, r.value) ELSE r
           out == IF sum.ok
                  THEN [logs |-> sum.logs, resp |-> JsonResponse(sum.value)]
                  ELSE ExecuteCatch(sum.logs, "jira_search", sum.error)
       IN /\ logs' = out.logs
          /\ inv' = [inv EXCEPT ![i].pc = "done", ![i].resp = out.resp]
    /\ requests' = Settle(i, reply)
    /\ UNCHANGED <<debugLevel, env, proc>>

(***************************************************************************)
(* jira-client.ts: createIssue; server.ts: jira_create_issue               *)
(***************************************************************************)
\* the rich-text document wrapped around a text, e.g. lines 91-105
RichTextBody(text) ==
    [type |-> "doc", version |-> 1,
     content |-> <<[type |-> "paragraph",
                    content |-> <<[type |-> "text", text |-> text]>>]>>]

\* lines 84-114 with the priority sent as { id: priority }
CreateFieldsPriorityId(args) ==
    LET keys == {"project", "issuetype", "summary"}
                    \cup (IF Falsy(args.description) THEN {} ELSE {"description"})
                    \cup (IF Falsy(args.assignee) THEN {} ELSE {"assignee"})
                    \cup (IF Falsy(args.priority) THEN {} ELSE {"priority"})
    IN [k \in keys |->
          CASE k = "project" -> [key |-> args.projectKey]
            [] k = "issuetype" -> [name |-> args.issueType]
            [] k = "summary" -> args.summary
            [] k = "description" -> RichTextBody(args.description)
            [] k = "assignee" -> [name |-> args.assignee]
            [] k = "priority" -> [id |-> args.priority]]

\* lines 84-114: the fields object of a new issue; if (x) skips a falsy x
CreateFields(args) ==
    LET keys == {"project", "issuetype", "summary"}
                    \cup (IF Falsy(args.description) THEN {} ELSE {"description"})
                    \cup (IF Falsy(args.assignee) THEN {} ELSE {"assignee"})
                    \cup (IF Falsy(args.priority) THEN {} ELSE {"priority"})
    IN [k \in keys |->
          CASE k = "project" -> [key |-> args.projectKey]
            [] k = "issuetype" -> [name |-> args.issueType]
            [] k = "summary" -> args.summary
            [] k = "description" -> RichTextBody(args.description)
            [] k = "assignee" -> [name |-> args.assignee]
            [] k = "priority" -> [name |-> args.priority]]

\* lines 82-119: up to the fetch of the POST
CreateIssueSend(lg, i, args) ==
    MakeRequestSend(LogInfo(lg, <<"Creating JIRA issue">>,
                            [projectKey |-> args.projectKey, issueType |-> args.issueType,
                             summary |-> args.summary]),
                    i, <<"issue">>, "POST", [fields |-> CreateFields(args)])

\* lines 123-126
CreateIssueCatch(lg, args, error) ==
    Thrown(LogError(lg, <<"Failed to create JIRA issue">>,
                    [projectKey |-> args.projectKey, issueType |-> args.issueType,
                     summary |-> args.summary, error |-> error]), error)

\* line 121 reading result.id, which the model's POST answers do not carry
CreatedKeyById(result) == Undefined

\* result.key of line 121
CreatedKey(result) == result.key

\* lines 116-122 with a failed POST sent a second time
CreateIssuePostedRetry(lg, i, args, reply) ==
    LET r == MakeRequestReceive(lg, RequestUrl(<<"issue">>), reply) IN
    IF ~r.ok
    THEN LET again == CreateIssueSend(r.logs, i, args) IN
         Returned(again.logs, [issueKey |-> Undefined, request |-> again.request])
    ELSE IF r.value.tag # "obj"
    THEN CreateIssueCatch(r.logs, args, TypeErrorMessage(r.value.tag, "key"))
    ELSE LET key == CreatedKey(r.value)
             s == GetIssueSend(LogInfo(r.logs, <<"Successfully created JIRA issue">>,
                                       [issueKey |-> key, projectKey |-> args.projectKey,
                                        summary |-> args.summary]),
                               i, key)
         IN Returned(s.logs, [issueKey |-> key, request |-> s.request])

\* lines 116-122: from the settled POST to the fetch of getIssue, or the throw.
\* A returned value is the request of the follow-up getIssue.
CreateIssuePosted(lg, i, args, reply) ==
    LET r == MakeRequestReceive(lg, RequestUrl(<<"issue">>), reply) IN
    IF ~r.ok THEN CreateIssueCatch(r.logs, args, r.error)
    ELSE IF r.value.tag # "obj"
    THEN CreateIssueCatch(r.logs, args, TypeErrorMessage(r.value.tag, "key"))
    ELSE LET key == CreatedKey(r.value)
             s == GetIssueSend(LogInfo(r.logs, <<"Successfully created JIRA issue">>,
                                       [issueKey |-> key, projectKey |-> args.projectKey,
                                        summary |-> args.summary]),
                               i, key)
         IN Returned(s.logs, [issueKey |-> key, request |-> s.request])

\* lines 122-126 with a failed follow-up fetch masked by a summary of the key
CreateIssueFetchedMasked(lg, args, issueKey, reply) ==
    LET r == GetIssueReceive(lg, issueKey, reply) IN
    IF r.ok THEN r
    ELSE Returned(r.logs, [key |-> issueKey, summary |-> args.summary, status |-> Undefined,
                           assignee |-> "Unassigned", priority |-> "None",
                           reporter |-> "Unknown"])

\* line 122-126: from the settled fetch of getIssue to the return or throw
CreateIssueFetched(lg, args, issueKey, reply) ==
    LET r == GetIssueReceive(lg, issueKey, reply) IN
    IF r.ok THEN r ELSE CreateIssueCatch(r.logs, args, r.error)

CreateArgs ==
    [projectKey : {"PROJ"}, issueType : {"Bug"}, summary : {"Fix login"},
     description : {Undefined, "", "Steps"},
     assignee : {Undefined, "alice"},
     priority : {Undefined, "High"}]

CreatedObj(key) == [tag |-> "obj", key |-> key]

CreateReplies ==
    CommonReplies \cup {HttpReply(201, "Created", JsonBody(p)) :
                            p \in {CreatedObj("PROJ-2"), CreatedObj(Undefined), NullObj}}

\* server.ts lines 110-119
JiraCreateIssue(i, args) ==
    /\ Callable("jira_create_issue")
    /\ inv[i].pc = "idle"
    /\ LET s == CreateIssueSend(logs, i, args) IN
       /\ logs' = s.logs
       /\ requests' = Append(requests, s.request)
       /\ inv' = [inv EXCEPT ![i] = [pc |-> "fetch", tool |-> "jira_create_issue",
                                     args |-> args, resp |-> NoResponse]]
    /\ UNCHANGED <<debugLevel, env, proc>>

\* the POST settles: the follow-up fetch is sent, or the handler returns the error
CreatePostResponse(i, reply) ==
    /\ inv[i].pc = "fetch"
    /\ inv[i].tool = "jira_create_issue"
    /\ LET r == CreateIssuePosted(logs, i, inv[i].args, reply) IN
       IF r.ok
       THEN /\ logs' = r.logs
            /\ requests' = Append(Settle(i, reply), r.value.request)
            /\ inv' = [inv EXCEPT ![i] = [pc |-> "followup", tool |-> inv[i].tool,
                                          args |-> inv[i].args,
                                          issueKey |-> r.value.issueKey,
                                          resp |-> NoResponse]]
       ELSE LET out == ExecuteCatch(r.logs, "jira_create_issue", r.error) IN
            /\ logs' = out.logs
            /\ requests' = Settle(i, reply)
            /\ inv' = [inv EXCEPT ![i].pc = "done", ![i].resp = out.resp]
    /\ UNCHANGED <<debugLevel, env, proc>>

\* the follow-up fetch settles: server.ts lines 120-125
CreateGetResponse(i, reply) ==
    /\ inv[i].pc = "followup"
    /\ inv[i].tool = "jira_create_issue"
    /\ LET r == CreateIssueFetched(logs, inv[i].args, inv[i].issueKey, reply)
           out == IF r.ok
                  THEN [logs |-> r.logs, resp |-> JsonResponse(JsonStringify(r.value))]
                  ELSE ExecuteCatch(r.logs, "jira_create_issue", r.error)
       IN /\ logs' = out.logs
          /\ inv' = [inv EXCEPT ![i].pc = "done", ![i].resp = out.resp]
    /\ requests' = Settle(i, reply)
    /\ UNCHANGED <<debugLevel, env, proc>>

(***************************************************************************)
(* jira-client.ts: updateIssue; server.ts: jira_update_issue               *)
(***************************************************************************)
UpdateFieldNames == {"summary", "description", "assignee", "priority"}

\* server.ts lines 142-145 without the filter on undefined values
FilteredFieldsKeepAll(args) == [k \in UpdateFieldNames |-> args[k]]

\* server.ts lines 142-145: the arguments but issueKey, the undefined ones dropped
FilteredFields(args) ==
    [k \in {f \in UpdateFieldNames : args[f] # Undefined} |-> args[k]]

\* jira-client.ts lines 132-144 with { name: key } written for { name: value }
UpdateFieldsNameOfKey(fields) ==
    [k \in DOMAIN fields |->
        IF k \in {"summary", "description"} THEN fields[k]
        ELSE IF k = "assignee" THEN [name |-> k]
        ELSE IF k = "priority" THEN [name |-> k]
        ELSE fields[k]]

\* jira-client.ts lines 132-144
UpdateFields(fields) ==
    [k \in DOMAIN fields |->
        IF k \in {"summary", "description"} THEN fields[k]
        ELSE IF k = "assignee" THEN [name |-> fields[k]]
        ELSE IF k = "priority" THEN [name |-> fields[k]]
        ELSE fields[k]]

\* JSON.stringify of the fields of an update: an undefined string property is
\* left out, and so is an undefined name inside assignee or priority
StringifyUpdateFields(updateFields) ==
    LET kept == {k \in DOMAIN updateFields :
                    k \in {"summary", "description"} => updateFields[k] # Undefined}
    IN [k \in kept |->
          IF k \in {"summary", "description"} THEN updateFields[k]
          ELSE JsonStringify(updateFields[k])]

\* jira-client.ts lines 130-149: up to the fetch of the PUT
UpdateIssueSend(lg, i, issueKey, fields) ==
    MakeRequestSend(LogInfo(lg, <<"Updating JIRA issue">>,
                            [issueKey |-> issueKey, fields |-> DOMAIN fields]),
                    i, IssueEndpoint(issueKey), "PUT",
                    [fields |-> StringifyUpdateFields(UpdateFields(fields))])

\* jira-client.ts lines 153-156
UpdateIssueCatch(lg, issueKey, error) ==
    Thrown(LogError(lg, <<"Failed to update JIRA issue">>,
                    [issueKey |-> issueKey, error |-> error]), error)

\* jira-client.ts lines 146-152: from the settled PUT to the fetch of getIssue
UpdateIssuePut(lg, i, issueKey, reply) ==
    LET r == MakeRequestReceive(lg, RequestUrl(IssueEndpoint(issueKey)), reply) IN
    IF ~r.ok THEN UpdateIssueCatch(r.logs, issueKey, r.error)
    ELSE LET s == GetIssueSend(LogInfo(r.logs, <<"Successfully updated JIRA issue">>,
                                       [issueKey |-> issueKey]),
                               i, issueKey)
         IN Returned(s.logs, [issueKey |-> issueKey, request |-> s.request])

\* jira-client.ts lines 152-156
UpdateIssueFetched(lg, issueKey, reply) ==
    LET r == GetIssueReceive(lg, issueKey, reply) IN
    IF r.ok THEN r ELSE UpdateIssueCatch(r.logs, issueKey, r.error)

UpdateArgs ==
    [issueKey : IssueKeys,
     summary : {Undefined, "", "New title"},
     description : {Undefined, "More detail"},
     assignee : {Undefined, "alice"},
     priority : {Undefined, "High"}]

EmptyObj == [tag |-> "obj"]

\* a PUT of an issue is answered 204 No Content by JIRA; a body is allowed for
UpdateReplies == CommonReplies \cup {HttpReply(200, "OK", JsonBody(EmptyObj))}

\* server.ts lines 140-151
JiraUpdateIssue(i, args) ==
    /\ Callable("jira_update_issue")
    /\ inv[i].pc = "idle"
    /\ LET filteredFields == FilteredFields(args) IN
       IF DOMAIN filteredFields = {}
       THEN /\ inv' = [inv EXCEPT ![i] =
                          [pc |-> "done", tool |-> "jira_update_issue", args |-> args,
                           resp |-> TextResponse(<<"Error: ", "No fields provided to update">>)]]
            /\ UNCHANGED <<logs, requests>>
       ELSE LET s == UpdateIssueSend(logs, i, args.issueKey, filteredFields) IN
            /\ logs' = s.logs
            /\ requests' = Append(requests, s.request)
            /\ inv' = [inv EXCEPT ![i] = [pc |-> "fetch", tool |-> "jira_update_issue",
                                          args |-> args, resp |-> NoResponse]]
    /\ UNCHANGED <<debugLevel, env, proc>>

\* the PUT settles: the follow-up fetch is sent, or the handler returns the error
UpdatePutResponse(i, reply) ==
    /\ inv[i].pc = "fetch"
    /\ inv[i].tool = "jira_update_issue"
    /\ LET r == UpdateIssuePut(logs, i, inv[i].args.issueKey, reply) IN
       IF r.ok
       THEN /\ logs' = r.logs
            /\ requests' = Append(Settle(i, reply), r.value.request)
            /\ inv' = [inv EXCEPT ![i] = [pc |-> "followup", tool |-> inv[i].tool,
                                          args |-> inv[i].args,
                                          issueKey |-> r.value.issueKey,
                                          resp |-> NoResponse]]
       ELSE LET out == ExecuteCatch(r.logs, "jira_update_issue", r.error) IN
            /\ logs' = out.logs
            /\ requests' = Settle(i, reply)
            /\ inv' = [inv EXCEPT ![i].pc = "done", ![i].resp = out.resp]
    /\ UNCHANGED <<debugLevel, env, proc>>

\* the follow-up fetch settles: server.ts lines 151-157
UpdateGetResponse(i, reply) ==
    /\ inv[i].pc = "followup"
    /\ inv[i].tool = "jira_update_issue"
    /\ LET r == UpdateIssueFetched(logs, inv[i].issueKey, reply)
           out == IF r.ok
                  THEN [logs |-> r.logs, resp |-> JsonResponse(JsonStringify(r.value))]
                  ELSE ExecuteCatch(r.logs, "jira_update_issue", r.error)
       IN /\ logs' = out.logs
          /\ inv' = [inv EXCEPT ![i].pc = "done", ![i].resp = out.resp]
    /\ requests' = Settle(i, reply)
    /\ UNCHANGED <<debugLevel, env, proc>>

(***************************************************************************)
(* jira-client.ts: transitionIssue; server.ts: jira_transition_issue       *)
(***************************************************************************)
TransitionsEndpoint(issueKey) == <<"issue/", TemplateStr(issueKey), "/transitions">>

\* jira-client.ts lines 162-190 with the comment put into the body as plain text
TransitionBodyPlainComment(transitionId, comment) ==
    IF Falsy(comment)
    THEN [transition |-> [id |-> transitionId]]
    ELSE [transition |-> [id |-> transitionId],
          update |-> [comment |-> <<[add |-> [body |-> [type |-> "text", text |-> comment]]]>>]]

\* jira-client.ts lines 162-190: the body of the POST
TransitionBody(transitionId, comment) ==
    IF Falsy(comment)
    THEN [transition |-> [id |-> transitionId]]
    ELSE [transition |-> [id |-> transitionId],
          update |-> [comment |-> <<[add |-> [body |-> RichTextBody(comment)]]>>]]

\* jira-client.ts lines 160-195: up to the fetch
TransitionIssueSend(lg, i, args) ==
    MakeRequestSend(LogInfo(lg, <<"Transitioning JIRA issue">>,
                            [issueKey |-> args.issueKey, transitionId |-> args.transitionId]),
                    i, TransitionsEndpoint(args.issueKey), "POST",
                    TransitionBody(args.transitionId, args.comment))

\* jira-client.ts lines 192-201: from the settled fetch to the return or throw
TransitionIssueReceive(lg, args, reply) ==
    LET r == MakeRequestReceive(lg, RequestUrl(TransitionsEndpoint(args.issueKey)), reply)
        details == [issueKey |-> args.issueKey, transitionId |-> args.transitionId]
    IN IF r.ok
       THEN Returned(LogInfo(r.logs, <<"Successfully transitioned JIRA issue">>, details),
                     UndefinedObj)
       ELSE Thrown(LogError(r.logs, <<"Failed to transition JIRA issue">>,
                            [issueKey |-> args.issueKey,
                             transitionId |-> args.transitionId, error |-> r.error]),
                   r.error)

TransitionArgs ==
    [issueKey : IssueKeys, transitionId : {"31"}, comment : {Undefined, "", "done"}]

\* a transition is answered 204 No Content by JIRA; a body is allowed for
TransitionReplies == CommonReplies \cup {HttpReply(200, "OK", JsonBody(EmptyObj))}

\* server.ts lines 170-172
JiraTransitionIssue(i, args) ==
    /\ Callable("jira_transition_issue")
    /\ inv[i].pc = "idle"
    /\ LET s == TransitionIssueSend(logs, i, args) IN
       /\ logs' = s.logs
       /\ requests' = Append(requests, s.request)
       /\ inv' = [inv EXCEPT ![i] = [pc |-> "fetch", tool |-> "jira_transition_issue",
                                     args |-> args, resp |-> NoResponse]]
    /\ UNCHANGED <<debugLevel, env, proc>>

\* server.ts lines 172-178
TransitionResponse(i, reply) ==
    /\ inv[i].pc = "fetch"
    /\ inv[i].tool = "jira_transition_issue"
    /\ LET r == TransitionIssueReceive(logs, inv[i].args, reply)
           out == IF r.ok
                  THEN [logs |-> r.logs,
                        resp |-> TextResponse(<<"Successfully transitioned issue ",
                                                TemplateStr(inv[i].args.issueKey)>>)]
                  ELSE ExecuteCatch(r.logs, "jira_transition_issue", r.error)
       IN /\ logs' = out.logs
          /\ inv' = [inv EXCEPT ![i].pc = "done", ![i].resp = out.resp]
    /\ requests' = Settle(i, reply)
    /\ UNCHANGED <<debugLevel, env, proc>>

(***************************************************************************)
(* jira-client.ts: addComment; server.ts: jira_add_comment                 *)
(***************************************************************************)
CommentEndpoint(issueKey) == <<"issue/", TemplateStr(issueKey), "/comment">>

\* jira-client.ts lines 205-228: up to the fetch
AddCommentSend(lg, i, args) ==
    MakeRequestSend(LogInfo(lg, <<"Adding comment to JIRA issue">>,
                            [issueKey |-> args.issueKey]),
                    i, CommentEndpoint(args.issueKey), "POST",
                    [body |-> RichTextBody(args.comment)])

\* jira-client.ts lines 225-234: from the settled fetch to the return or throw
AddCommentReceive(lg, args, reply) ==
    LET r == MakeRequestReceive(lg, RequestUrl(CommentEndpoint(args.issueKey)), reply) IN
    IF r.ok
    THEN Returned(LogInfo(r.logs, <<"Successfully added comment to JIRA issue">>,
                          [issueKey |-> args.issueKey]),
                  UndefinedObj)
    ELSE Thrown(LogError(r.logs, <<"Failed to add comment to JIRA issue">>,
                         [issueKey |-> args.issueKey, error |-> r.error]),
                r.error)

CommentArgs == [issueKey : IssueKeys, comment : {"", "Looks good"}]

CommentReplies == CommonReplies \cup {HttpReply(201, "Created", JsonBody(EmptyObj))}

\* server.ts lines 190-192
JiraAddComment(i, args) ==
    /\ Callable("jira_add_comment")
    /\ inv[i].pc = "idle"
    /\ LET s == AddCommentSend(logs, i, args) IN
       /\ logs' = s.logs
       /\ requests' = Append(requests, s.request)
       /\ inv' = [inv EXCEPT ![i] = [pc |-> "fetch", tool |-> "jira_add_comment",
                                     args |-> args, resp |-> NoResponse]]
    /\ UNCHANGED <<debugLevel, env, proc>>

\* server.ts lines 192-198
CommentResponse(i, reply) ==
    /\ inv[i].pc = "fetch"
    /\ inv[i].tool = "jira_add_comment"
    /\ LET r == AddCommentReceive(logs, inv[i].args, reply)
           out == IF r.ok
                  THEN [logs |-> r.logs,
                        resp |-> TextResponse(<<"Successfully added comment to issue ",
                                                TemplateStr(inv[i].args.issueKey)>>)]
                  ELSE ExecuteCatch(r.logs, "jira_add_comment", r.error)
       IN /\ logs' = out.logs
          /\ inv' = [inv EXCEPT ![i].pc = "done", ![i].resp = out.resp]
    /\ requests' = Settle(i, reply)
    /\ UNCHANGED <<debugLevel, env, proc>>

(***************************************************************************)
(* server.ts: startup.  An environment variable that holds a string is a   *)
(* string slot (Undefined when unset); JIRA_MCP_PORT, which is parsed, is  *)
(* the sequence of its characters inside an optional.                      *)
(***************************************************************************)
Unset == [set |-> FALSE]
SetTo(chars) == [set |-> TRUE, chars |-> chars]

\* !value of an optional string of characters
FalsyChars(opt) == ~opt.set \/ opt.chars = <<>>

\* logger.ts lines 7-11: the threshold the constructor leaves in debugLevel
LoggerConstructor(level) == IF Falsy(level) THEN "debug" ELSE level

\* server.ts lines 12-13
useRemote == "--remote" \in env.args
useStdio == "--stdio" \in env.args \/ ~useRemote

RequiredMessage(name) == <<name, " environment variable is required">>

\* config.ts lines 4-38 with the check of the token (lines 17-21) left out
loadConfigUncheckedToken(lg) ==
    IF Falsy(env.JIRA_MCP_URL)
    THEN Thrown(LogError(lg, RequiredMessage("JIRA_MCP_URL"), NoDetails),
                RequiredMessage("JIRA_MCP_URL"))
    ELSE LET config == [JIRA_MCP_URL |-> env.JIRA_MCP_URL,
                        JIRA_MCP_TOKEN |-> env.JIRA_MCP_TOKEN,
                        JIRA_MCP_PORT |-> env.JIRA_MCP_PORT,
                        JIRA_MCP_DEBUG |-> OrElse(env.JIRA_MCP_DEBUG, "debug")]
         IN Returned(LogInfo(lg, <<"Configuration loaded successfully">>,
                             [jiraUrl |-> config.JIRA_MCP_URL,
                              hasToken |-> ~Falsy(config.JIRA_MCP_TOKEN),
                              port |-> config.JIRA_MCP_PORT,
                              debugLevel |-> config.JIRA_MCP_DEBUG]),
                     config)

\* config.ts lines 4-38
loadConfig(lg) ==
    IF Falsy(env.JIRA_MCP_URL)
    THEN Thrown(LogError(lg, RequiredMessage("JIRA_MCP_URL"), NoDetails),
                RequiredMessage("JIRA_MCP_URL"))
    ELSE IF Falsy(env.JIRA_MCP_TOKEN)
    THEN Thrown(LogError(lg, RequiredMessage("JIRA_MCP_TOKEN"), NoDetails),
                RequiredMessage("JIRA_MCP_TOKEN"))
    ELSE LET config == [JIRA_MCP_URL |-> env.JIRA_MCP_URL,
                        JIRA_MCP_TOKEN |-> env.JIRA_MCP_TOKEN,
                        JIRA_MCP_PORT |-> env.JIRA_MCP_PORT,
                        JIRA_MCP_DEBUG |-> OrElse(env.JIRA_MCP_DEBUG, "debug")]
         IN Returned(LogInfo(lg, <<"Configuration loaded successfully">>,
                             [jiraUrl |-> config.JIRA_MCP_URL, hasToken |-> TRUE,
                              port |-> config.JIRA_MCP_PORT,
                              debugLevel |-> config.JIRA_MCP_DEBUG]),
                     config)

RemoteRequiredMessage ==
    <<"JIRA_MCP_PORT", " environment variable is required when using --remote flag">>

\* config.ts lines 40-46
validateRemoteConfig(lg, config) ==
    IF FalsyChars(config.JIRA_MCP_PORT)
    THEN Thrown(LogError(lg, RemoteRequiredMessage, NoDetails), RemoteRequiredMessage)
    ELSE Returned(lg, config)

IsDigit(c) == c \in {"0", "1", "2", "3", "4", "5", "6", "7", "8", "9"}

DigitValue(c) == CHOOSE d \in 0..9 : ToString(d) = c

\* the number the first n characters, all digits, denote
RECURSIVE DigitsValue(_, _)
DigitsValue(chars, n) ==
    IF n = 0 THEN 0 ELSE 10 * DigitsValue(chars, n - 1) + DigitValue(chars[n])

\* parseInt(chars, 10) of server.ts line 223: the longest prefix of digits, NaN
\* when there is none
ParseInt(chars) ==
    LET n == CHOOSE m \in 0..Len(chars) :
                 /\ \A k \in 1..m : IsDigit(chars[k])
                 /\ m < Len(chars) => ~IsDigit(chars[m + 1])
    IN IF n = 0 THEN [nan |-> TRUE] ELSE [nan |-> FALSE, n |-> DigitsValue(chars, n)]

NoConfig == [tag |-> "undefined"]
NoTransport == [transportType |-> "none"]

\* the process of server.ts line 18, the logger constructed
Booting ==
    [phase |-> "boot", exitCode |-> 0, config |-> NoConfig, tools |-> {},
     uiUrl |-> <<>>, transport |-> NoTransport]

Tools == {"jira_get_issue", "jira_search", "jira_create_issue", "jira_update_issue",
          "jira_transition_issue", "jira_add_comment", "get_mcp_ui"}

\* server.ts lines 233-238: the catch block around the startup
Fatal(lg, errorMsg) ==
    /\ logs' = LogError(lg, <<"Failed to start MCP server: ">> \o errorMsg, NoDetails)
    /\ proc' = [proc EXCEPT !.phase = "exited", !.exitCode = 1]

\* server.ts lines 18-38: from loadConfig to the await of startUIServer
LoadConfiguration ==
    /\ proc.phase = "boot"
    /\ LET r == loadConfig(logs)
           v == IF r.ok /\ useRemote THEN validateRemoteConfig(r.logs, r.value) ELSE r
       IN IF v.ok
          THEN /\ logs' = v.logs
               /\ proc' = [proc EXCEPT !.phase = "ui", !.config = v.value]
          ELSE Fatal(v.logs, v.error)
    /\ UNCHANGED <<debugLevel, inv, requests, env>>

\* what startUIServer may do: serve on a free port of 8080..8199, or find none
UIPorts == {"8080", "8090"}
UIServerResults ==
    {Returned(<<>>, <<"http://localhost:", port>>) : port \in UIPorts}
        \cup {Thrown(<<>>, <<"No available ports found">>)}

\* server.ts lines 216-231: the transport server.start is called with
StartedTransport(lg, config) ==
    IF useStdio
    THEN [logs |-> LogInfo(lg, <<"Starting MCP server with stdio transport">>, NoDetails),
          transport |-> [transportType |-> "stdio"]]
    ELSE IF useRemote
    THEN LET port == ParseInt(config.JIRA_MCP_PORT.chars) IN
         [logs |-> LogInfo(lg, <<"Starting MCP server with HTTP transport on port ">>
                                   \o (IF port.nan THEN <<"NaN">> ELSE <<ToString(port.n)>>),
                           NoDetails),
          transport |-> [transportType |-> "httpStream", port |-> port]]
    ELSE [logs |-> lg, transport |-> NoTransport]

\* server.ts lines 38-231: startUIServer settles, the tools are registered and
\* the transport is started
UIServerStarted(ui) ==
    /\ proc.phase = "ui"
    /\ LET lg == IF ui.ok
                 THEN LogInfo(logs, <<"UI server started at ">> \o ui.value, NoDetails)
                 ELSE LogError(logs, <<"Failed to start UI server: ">> \o ui.error, NoDetails)
           st == StartedTransport(lg, proc.config)
       IN /\ logs' = st.logs
          /\ proc' = [proc EXCEPT !.phase = "serving",
                                  !.uiUrl = IF ui.ok THEN ui.value ELSE <<>>,
                                  !.tools = Tools,
                                  !.transport = st.transport]
    /\ UNCHANGED <<debugLevel, inv, requests, env>>

\* server.ts lines 203-214
GetMcpUi(i) ==
    /\ Callable("get_mcp_ui")
    /\ inv[i].pc = "idle"
    /\ inv' = [inv EXCEPT ![i] =
                  [pc |-> "done", tool |-> "get_mcp_ui",
                   resp |-> IF proc.uiUrl # <<>>
                            THEN TextResponse(<<"MCP Server UI is available at: ">>
                                                  \o proc.uiUrl)
                            ELSE TextResponse(<<"MCP Server UI is not available. ",
                                                "Check server logs for errors.">>)]]
    /\ UNCHANGED <<debugLevel, logs, requests, env, proc>>

(***************************************************************************)
(* server.ts: the parameter schemas, and the dispatch of a call.  An       *)
(* argument as the caller sends it is a JSON value with its type; the      *)
(* framework parses the arguments with the tool's schema and calls execute *)
(* only with the parsed arguments.                                         *)
(***************************************************************************)
Missing == [type |-> "undefined"]
Str(v) == [type |-> "string", v |-> v]
Num(n) == [type |-> "number", v |-> n]

ZString == [type |-> "string", optional |-> FALSE]
ZOptionalString == [type |-> "string", optional |-> TRUE]
ZOptionalNumber == [type |-> "number", optional |-> TRUE]

\* server.ts lines 48-50 with issueKey declared optional
GetIssueParametersOptional == [issueKey |-> ZOptionalString]

\* server.ts lines 48-50
GetIssueParameters == [issueKey |-> ZString]

\* server.ts lines 67-71
SearchParameters ==
    [jql |-> ZString, startAt |-> ZOptionalNumber, maxResults |-> ZOptionalNumber]

\* server.ts lines 102-109
CreateParameters ==
    [projectKey |-> ZString, issueType |-> ZString, summary |-> ZString,
     description |-> ZOptionalString, assignee |-> ZOptionalString,
     priority |-> ZOptionalString]

\* server.ts lines 133-139
UpdateParameters ==
    [issueKey |-> ZString, summary |-> ZOptionalString, description |-> ZOptionalString,
     assignee |-> ZOptionalString, priority |-> ZOptionalString]

\* server.ts lines 165-169
TransitionParameters ==
    [issueKey |-> ZString, transitionId |-> ZString, comment |-> ZOptionalString]

\* server.ts lines 186-189
CommentParameters == [issueKey |-> ZString, comment |-> ZString]

\* whether schema z takes the value: an absent value only if optional, a present
\* one only if of z's type
ZodAccepts(z, value) ==
    IF value.type = "undefined" THEN z.optional ELSE value.type = z.type

\* whether z.object(parameters) takes the arguments
SafeParse(parameters, raw) ==
    \A k \in DOMAIN parameters : ZodAccepts(parameters[k], raw[k])

\* the arguments execute is called with: a string slot for a string, an optional
\* for a number; the arguments as received are kept beside them
ParsedArgs(parameters, raw) ==
    [k \in DOMAIN parameters \cup {"received"} |->
        IF k = "received" THEN raw
        ELSE IF parameters[k].type = "number"
        THEN (IF raw[k].type = "undefined" THEN <<>> ELSE <<raw[k].v>>)
        ELSE (IF raw[k].type = "undefined" THEN Undefined ELSE raw[k].v)]

\* a call whose arguments the schema refuses: execute is not called
Reject(i, tool, raw) ==
    /\ Callable(tool)
    /\ inv[i].pc = "idle"
    /\ inv' = [inv EXCEPT ![i] = [pc |-> "rejected", tool |-> tool, raw |-> raw,
                                  resp |-> [kind |-> "invalid"]]]
    /\ UNCHANGED <<debugLevel, logs, requests, env, proc>>

CallGetIssue(i, raw) ==
    IF SafeParse(GetIssueParameters, raw)
    THEN JiraGetIssue(i, ParsedArgs(GetIssueParameters, raw))
    ELSE Reject(i, "jira_get_issue", raw)

CallSearch(i, raw) ==
    IF SafeParse(SearchParameters, raw)
    THEN JiraSearch(i, ParsedArgs(SearchParameters, raw))
    ELSE Reject(i, "jira_search", raw)

CallCreateIssue(i, raw) ==
    IF SafeParse(CreateParameters, raw)
    THEN JiraCreateIssue(i, ParsedArgs(CreateParameters, raw))
    ELSE Reject(i, "jira_create_issue", raw)

CallUpdateIssue(i, raw) ==
    IF SafeParse(UpdateParameters, raw)
    THEN JiraUpdateIssue(i, ParsedArgs(UpdateParameters, raw))
    ELSE Reject(i, "jira_update_issue", raw)

CallTransitionIssue(i, raw) ==
    IF SafeParse(TransitionParameters, raw)
    THEN JiraTransitionIssue(i, ParsedArgs(TransitionParameters, raw))
    ELSE Reject(i, "jira_transition_issue", raw)

CallAddComment(i, raw) ==
    IF SafeParse(CommentParameters, raw)
    THEN JiraAddComment(i, ParsedArgs(CommentParameters, raw))
    ELSE Reject(i, "jira_add_comment", raw)

\* arguments as callers send them: right, absent, and of the wrong type
RawGetIssue == [issueKey : {Missing, Str("PROJ-1"), Num(42)}]
RawSearch ==
    [jql : {Missing, Str(<<"project", " ", "=", " ", "PROJ">>)},
     startAt : {Missing, Num(10), Str("ten")},
     maxResults : {Missing, Num(5)}]
RawCreate ==
    [projectKey : {Missing, Str("PROJ")}, issueType : {Str("Bug")},
     summary : {Missing, Str("Fix login")}, description : {Missing, Str("Steps"), Num(7)},
     assignee : {Missing}, priority : {Missing, Str("High")}]
RawUpdate ==
    [issueKey : {Missing, Str("PROJ-1")}, summary : {Missing, Str("New title"), Num(7)},
     description : {Missing}, assignee : {Missing, Str("alice")}, priority : {Missing}]
RawTransition ==
    [issueKey : {Str("PROJ-1")}, transitionId : {Missing, Str("31"), Num(31)},
     comment : {Missing, Str("done"), Num(7)}]
RawComment == [issueKey : {Missing, Str("PROJ-1")}, comment : {Missing, Str("Looks good"), Num(7)}]

\* the answers of upstream the dispatch is exercised with
PlainIssue ==
    IssueObj("PROJ-1", IssueFields("Fix login", NameObj("Open"), UserObj("Alice"),
                                   NameObj("High"), UserObj("Bob")))
FewIssueReplies == {NetworkFailure, HttpReply(200, "OK", JsonBody(PlainIssue))}
FewSearchReplies ==
    {NetworkFailure, HttpReply(200, "OK", JsonBody(SearchResultObj(ArrayOf(<<PlainIssue>>))))}
FewCreateReplies == {NetworkFailure, HttpReply(201, "Created", JsonBody(CreatedObj("PROJ-2")))}
FewEmptyReplies == {NetworkFailure, HttpReply(200, "OK", JsonBody(EmptyObj))}

(***************************************************************************)
(* ui-server.ts: POST /api/logs/clear                                      *)
(***************************************************************************)
ClearLogs ==
    /\ proc.uiUrl # <<>>
    /\ logs # <<>>
    /\ logs' = <<>>
    /\ UNCHANGED <<debugLevel, inv, requests, env, proc>>

\* a run with both required variables set, started with no flag
ConfiguredEnv(debug) ==
    [JIRA_MCP_URL |-> JIRA_MCP_URL, JIRA_MCP_TOKEN |-> JIRA_MCP_TOKEN,
     JIRA_MCP_PORT |-> Unset, JIRA_MCP_DEBUG |-> debug, args |-> {}]

\* the process such a run ends its startup with
ServingOverStdio(e) ==
    [phase |-> "serving", exitCode |-> 0,
     config |-> [JIRA_MCP_URL |-> e.JIRA_MCP_URL, JIRA_MCP_TOKEN |-> e.JIRA_MCP_TOKEN,
                 JIRA_MCP_PORT |-> e.JIRA_MCP_PORT,
                 JIRA_MCP_DEBUG |-> OrElse(e.JIRA_MCP_DEBUG, "debug")],
     tools |-> Tools, uiUrl |-> <<"http://localhost:", "8080">>,
     transport |-> [transportType |-> "stdio"]]

\* The server is up, one invocation is to come, and the log has been cleared
\* from the UI since the startup.
Init ==
    /\ env \in {ConfiguredEnv(d) : d \in {Undefined, "info", "warning", "error", "verbose"}}
    /\ debugLevel = LoggerConstructor(env.JIRA_MCP_DEBUG)
    /\ proc = ServingOverStdio(env)
    /\ logs = <<>>
    /\ inv = [i \in OneCaller |-> Idle]
    /\ requests = <<>>

Next ==
    \/ \E i \in Invocations, args \in GetIssueArgs : JiraGetIssue(i, args)
    \/ \E i \in Invocations, reply \in IssueReplies : GetIssueResponse(i, reply)
    \/ \E i \in Invocations, raw \in SearchArgs : JiraSearch(i, raw)
    \/ \E i \in Invocations, reply \in SearchReplies : SearchResponse(i, reply)
    \/ \E i \in Invocations, args \in CreateArgs : JiraCreateIssue(i, args)
    \/ \E i \in Invocations, reply \in CreateReplies : CreatePostResponse(i, reply)
    \/ \E i \in Invocations, reply \in IssueReplies : CreateGetResponse(i, reply)
    \/ \E i \in Invocations, args \in UpdateArgs : JiraUpdateIssue(i, args)
    \/ \E i \in Invocations, reply \in UpdateReplies : UpdatePutResponse(i, reply)
    \/ \E i \in Invocations, reply \in IssueReplies : UpdateGetResponse(i, reply)
    \/ \E i \in Invocations, args \in TransitionArgs : JiraTransitionIssue(i, args)
    \/ \E i \in Invocations, reply \in TransitionReplies : TransitionResponse(i, reply)
    \/ \E i \in Invocations, args \in CommentArgs : JiraAddComment(i, args)
    \/ \E i \in Invocations, reply \in CommentReplies : CommentResponse(i, reply)
    \/ ClearLogs

Spec == Init /\ [][Next]_vars

\* The environments a run may start in: each required variable unset, empty or
\* set; the port unset, empty, a number, or no number; the two flags.
Flags == {"--remote", "--stdio"}

Envs ==
    [JIRA_MCP_URL : {Undefined, "", JIRA_MCP_URL},
     JIRA_MCP_TOKEN : {Undefined, "", JIRA_MCP_TOKEN},
     JIRA_MCP_PORT : {Unset, SetTo(<<>>), SetTo(<<"8", "0", "8", "0">>),
                      SetTo(<<"8", "0", "9", "0">>), SetTo(<<"h", "t", "t", "p">>)},
     JIRA_MCP_DEBUG : {Undefined, "", "info", "error"},
     args : SUBSET Flags]

\* The process at line 18 of server.ts: the flags read, the logger constructed.
InitStartup ==
    /\ env \in Envs
    /\ debugLevel = LoggerConstructor(env.JIRA_MCP_DEBUG)
    /\ proc = Booting
    /\ logs = <<>>
    /\ inv = [i \in OneCaller |-> Idle]
    /\ requests = <<>>

NextStartup ==
    \/ LoadConfiguration
    \/ \E ui \in UIServerResults : UIServerStarted(ui)
    \/ \E i \in Invocations, args \in GetIssueArgs : JiraGetIssue(i, args)
    \/ \E i \in Invocations, reply \in FewIssueReplies : GetIssueResponse(i, reply)
    \/ \E i \in Invocations : GetMcpUi(i)
    \/ ClearLogs

SpecStartup == InitStartup /\ [][NextStartup]_vars

\* the answers to a fetch of an issue the liveness is checked with: every kind of
\* failure, every malformed payload, and one well-formed issue
LiveIssueReplies ==
    CommonReplies \cup {HttpReply(200, "OK", JsonBody(p)) : p \in MalformedIssues \cup {PlainIssue}}

\* an upstream call of invocation i completes, with a response or a failure
Completes(i) ==
    \/ \E reply \in LiveIssueReplies : GetIssueResponse(i, reply)
    \/ \E reply \in SearchReplies : SearchResponse(i, reply)
    \/ \E reply \in CreateReplies : CreatePostResponse(i, reply)
    \/ \E reply \in LiveIssueReplies : CreateGetResponse(i, reply)
    \/ \E reply \in UpdateReplies : UpdatePutResponse(i, reply)
    \/ \E reply \in LiveIssueReplies : UpdateGetResponse(i, reply)
    \/ \E reply \in TransitionReplies : TransitionResponse(i, reply)
    \/ \E reply \in CommentReplies : CommentResponse(i, reply)

NextLive ==
    \/ \E i \in Invocations, args \in GetIssueArgs : JiraGetIssue(i, args)
    \/ \E i \in Invocations, raw \in SearchArgs : JiraSearch(i, raw)
    \/ \E i \in Invocations, args \in CreateArgs : JiraCreateIssue(i, args)
    \/ \E i \in Invocations, args \in UpdateArgs : JiraUpdateIssue(i, args)
    \/ \E i \in Invocations, args \in TransitionArgs : JiraTransitionIssue(i, args)
    \/ \E i \in Invocations, args \in CommentArgs : JiraAddComment(i, args)
    \/ \E i \in Invocations, reply \in LiveIssueReplies : GetIssueResponse(i, reply)
    \/ \E i \in Invocations, reply \in SearchReplies : SearchResponse(i, reply)
    \/ \E i \in Invocations, reply \in CreateReplies : CreatePostResponse(i, reply)
    \/ \E i \in Invocations, reply \in LiveIssueReplies : CreateGetResponse(i, reply)
    \/ \E i \in Invocations, reply \in UpdateReplies : UpdatePutResponse(i, reply)
    \/ \E i \in Invocations, reply \in LiveIssueReplies : UpdateGetResponse(i, reply)
    \/ \E i \in Invocations, reply \in TransitionReplies : TransitionResponse(i, reply)
    \/ \E i \in Invocations, reply \in CommentReplies : CommentResponse(i, reply)
    \/ ClearLogs

\* Every upstream call that was sent completes in the end; nothing obliges a
\* caller to call or the UI to clear the log.
SpecLive == Init /\ [][NextLive]_vars /\ \A i \in OneCaller : WF_vars(Completes(i))

\* Two invocations in flight at once.  The handlers are async functions: between
\* two awaits of one invocation any step of the other may run.
TwoCallers == {1, 2}

ConcIssueKeys == {"PROJ-1", "PROJ-7"}
ConcGetIssueArgs == [issueKey : ConcIssueKeys]
ConcUpdateArgs ==
    [issueKey : IssueKeys, summary : {"New title"}, description : {Undefined},
     assignee : {Undefined}, priority : {Undefined}]
ConcTransitionArgs == [issueKey : IssueKeys, transitionId : {"31"}, comment : {Undefined}]
ConcIssueReplies ==
    {NetworkFailure,
     HttpReply(404, "Not Found", EmptyBody),
     HttpReply(200, "OK", JsonBody(PlainIssue))}

InitConc ==
    /\ env \in {ConfiguredEnv(d) : d \in {Undefined, "error"}}
    /\ debugLevel = LoggerConstructor(env.JIRA_MCP_DEBUG)
    /\ proc = ServingOverStdio(env)
    /\ logs = <<>>
    /\ inv = [i \in TwoCallers |-> Idle]
    /\ requests = <<>>

NextConc ==
    \/ \E i \in Invocations, args \in ConcGetIssueArgs : JiraGetIssue(i, args)
    \/ \E i \in Invocations, reply \in ConcIssueReplies : GetIssueResponse(i, reply)
    \/ \E i \in Invocations, args \in ConcUpdateArgs : JiraUpdateIssue(i, args)
    \/ \E i \in Invocations, reply \in FewEmptyReplies : UpdatePutResponse(i, reply)
    \/ \E i \in Invocations, reply \in ConcIssueReplies : UpdateGetResponse(i, reply)
    \/ \E i \in Invocations, args \in ConcTransitionArgs : JiraTransitionIssue(i, args)
    \/ \E i \in Invocations, reply \in FewEmptyReplies : TransitionResponse(i, reply)
    \/ ClearLogs

SpecConc == InitConc /\ [][NextConc]_vars

\* The calls as the framework receives them, valid or not.
NextDispatch ==
    \/ \E i \in Invocations, raw \in RawGetIssue : CallGetIssue(i, raw)
    \/ \E i \in Invocations, reply \in FewIssueReplies : GetIssueResponse(i, reply)
    \/ \E i \in Invocations, raw \in RawSearch : CallSearch(i, raw)
    \/ \E i \in Invocations, reply \in FewSearchReplies : SearchResponse(i, reply)
    \/ \E i \in Invocations, raw \in RawCreate : CallCreateIssue(i, raw)
    \/ \E i \in Invocations, reply \in FewCreateReplies : CreatePostResponse(i, reply)
    \/ \E i \in Invocations, reply \in FewIssueReplies : CreateGetResponse(i, reply)
    \/ \E i \in Invocations, raw \in RawUpdate : CallUpdateIssue(i, raw)
    \/ \E i \in Invocations, reply \in FewEmptyReplies : UpdatePutResponse(i, reply)
    \/ \E i \in Invocations, reply \in FewIssueReplies : UpdateGetResponse(i, reply)
    \/ \E i \in Invocations, raw \in RawTransition : CallTransitionIssue(i, raw)
    \/ \E i \in Invocations, reply \in FewEmptyReplies : TransitionResponse(i, reply)
    \/ \E i \in Invocations, raw \in RawComment : CallAddComment(i, raw)
    \/ \E i \in Invocations, reply \in FewEmptyReplies : CommentResponse(i, reply)
    \/ ClearLogs

SpecDispatch == Init /\ [][NextDispatch]_vars

(***************************************************************************)
(* Vocabulary of the properties.                                           *)
(***************************************************************************)
Done(i) == inv[i].pc = "done"

ExchangesOf(i) == {k \in 1..Len(requests) : requests[k].inv = i}

\* the exchanges of invocation i, in the order sent
ExchangeSeq(i) ==
    LET idx == ExchangesOf(i)
        Nth[n \in 1..Cardinality(idx)] ==
            CHOOSE k \in idx : Cardinality({m \in idx : m < k}) = n - 1
    IN [n \in 1..Cardinality(idx) |-> requests[Nth[n]]]

LastExchange(i) == ExchangeSeq(i)[Cardinality(ExchangesOf(i))]

IsErrorText(resp) ==
    resp.kind = "text" /\ Len(resp.text) > 1 /\ Head(resp.text) = "Error: "

\* text holds the pieces of part, in a row
Carries(text, part) ==
    \E k \in 0..(Len(text) - Len(part)) : SubSeq(text, k + 1, k + Len(part)) = part

NetworkFailed(reply) == reply.net = "fail"
ErrorStatus(reply) == reply.net = "ok" /\ ~(reply.status \in 200..299)
SuccessStatus(reply) == reply.net = "ok" /\ reply.status \in 200..299
SuccessJson(reply) == SuccessStatus(reply) /\ reply.body.kind = "json"

IsIssueGet(r) == r.method = "GET" /\ Len(r.url) = 4 /\ r.url[3] = "issue/"
IsSearchGet(r) == r.method = "GET" /\ r.url[3] = "search?jql="
IsIssuePost(r) == r.method = "POST" /\ r.url = <<JIRA_MCP_URL, "/rest/api/2/", "issue">>
IsIssuePut(r) == r.method = "PUT" /\ Len(r.url) = 4 /\ r.url[3] = "issue/"

\* an upstream issue that carries what the JiraIssue type declares as objects
IssueHasShape(issue) ==
    /\ issue.tag = "obj"
    /\ issue.fields.tag = "obj"
    /\ issue.fields.status.tag = "obj"

\* a JSON payload that lacks the objects the operation reads from it
MalformedPayload(r) ==
    /\ SuccessJson(r.reply)
    /\ LET v == r.reply.body.value IN
       \/ IsIssueGet(r) /\ ~IssueHasShape(v)
       \/ IsIssuePost(r) /\ v.tag # "obj"
       \/ IsSearchGet(r) /\ (\/ v.tag # "obj"
                             \/ v.issues.tag # "arr"
                             \/ \E k \in 1..Len(v.issues.items) :
                                    ~IssueHasShape(v.issues.items[k]))

\* the exchange failed beneath the tool: no response, an error status, a body
\* that is no JSON, or a malformed payload
FailedBeneath(r) ==
    \/ NetworkFailed(r.reply)
    \/ ErrorStatus(r.reply)
    \/ SuccessStatus(r.reply) /\ r.reply.body.kind # "json"
    \/ MalformedPayload(r)

JiraTools == {"jira_get_issue", "jira_search", "jira_create_issue", "jira_update_issue",
              "jira_transition_issue", "jira_add_comment"}

(***************************************************************************)
(* C1: whatever fails beneath a JIRA tool (upstream API error, transport   *)
(* error, malformed upstream payload), the invocation returns a text       *)
(* `Error: <message>`; nothing propagates past the execute handler, so a   *)
(* finished invocation always holds a text or JSON result.                 *)
(***************************************************************************)
C1_FailureBecomesErrorText ==
    \A i \in Invocations :
        Done(i) =>
            /\ inv[i].tool \in JiraTools
            /\ inv[i].resp.kind \in {"text", "json"}
            /\ (\E k \in ExchangesOf(i) : FailedBeneath(requests[k]))
                   => IsErrorText(inv[i].resp)

C1_Witness ==
    \E i \in Invocations :
        /\ Done(i)
        /\ inv[i].tool = "jira_search"
        /\ MalformedPayload(LastExchange(i))
        /\ IsErrorText(inv[i].resp)

(***************************************************************************)
(* C2: when an upstream call is answered with a 4xx/5xx status, the        *)
(* invocation returns a text that begins with `Error:` and carries the     *)
(* status code, the status text and the raw body, and the step that        *)
(* returns it has recorded an error-level log entry.                       *)
(***************************************************************************)
C2_ApiErrorReported ==
    [][\A i \in Invocations :
          (/\ ~Done(i)
           /\ inv'[i].pc = "done"
           /\ \E k \in 1..Len(requests') :
                 requests'[k].inv = i /\ ErrorStatus(requests'[k].reply))
          => LET reply == requests'[CHOOSE k \in 1..Len(requests') :
                             requests'[k].inv = i /\ ErrorStatus(requests'[k].reply)].reply
             IN /\ IsErrorText(inv'[i].resp)
                /\ Carries(inv'[i].resp.text,
                           <<ToString(reply.status), " ", reply.statusText, " - ",
                             BodyText(reply.body)>>)
                /\ Len(logs') > Len(logs)
                /\ SubSeq(logs', 1, Len(logs)) = logs
                /\ \E m \in (Len(logs) + 1)..Len(logs') : logs'[m].level = "error"]_vars

C2_Witness ==
    \E i \in Invocations :
        /\ Done(i)
        /\ inv[i].tool = "jira_update_issue"
        /\ ExchangesOf(i) # {}
        /\ ErrorStatus(LastExchange(i).reply)
        /\ LastExchange(i).reply.status = 404
        /\ IsErrorText(inv[i].resp)
        /\ \E m \in 1..Len(logs) : logs[m].level = "error"

(***************************************************************************)
(* C3: a network-level failure is reported as a transport error and a      *)
(* 4xx/5xx status as an upstream API error, and no failure is reported     *)
(* under both; either way the invocation returns a text beginning with     *)
(* `Error:`.  The report is the label the message carries: "JIRA API       *)
(* request failed: " is the label of the catch block around fetch, "JIRA   *)
(* API error: " the label of the non-success branch.                       *)
(***************************************************************************)
Labels(text) ==
    (IF Carries(text, <<"JIRA API request failed: ">>) THEN {"transport"} ELSE {})
        \cup (IF Carries(text, <<"JIRA API error: ">>) THEN {"api"} ELSE {})

C3_DistinctClassification ==
    \A i \in Invocations :
        (Done(i) /\ ExchangesOf(i) # {}) =>
            LET reply == LastExchange(i).reply IN
            /\ NetworkFailed(reply) =>
                  IsErrorText(inv[i].resp) /\ Labels(inv[i].resp.text) = {"transport"}
            /\ ErrorStatus(reply) =>
                  IsErrorText(inv[i].resp) /\ Labels(inv[i].resp.text) = {"api"}

(***************************************************************************)
(* C4: the IssueSummary of get_issue, of each issue of search, of          *)
(* create_issue and of update_issue.                                       *)
(***************************************************************************)
SummaryFields == {"key", "summary", "status", "assignee", "priority", "reporter"}

Absent(obj) == obj.tag \in {"undefined", "null"}

\* what was returned for one upstream issue: s is the JSON object in the response
DefaultsExactlyWhenAbsent(s, issue) ==
    /\ DOMAIN s = SummaryFields
    /\ \A f \in SummaryFields : s[f] # Null
    /\ s.assignee = "Unassigned" <=> Absent(issue.fields.assignee)
    /\ s.priority = "None" <=> Absent(issue.fields.priority)
    /\ s.reporter = "Unknown" <=> Absent(issue.fields.reporter)
    /\ ~Absent(issue.fields.assignee) => s.assignee = issue.fields.assignee.displayName
    /\ ~Absent(issue.fields.priority) => s.priority = issue.fields.priority.name
    /\ ~Absent(issue.fields.reporter) => s.reporter = issue.fields.reporter.displayName

\* the upstream issue carries a key, a summary and a status name
CarriesRequired(issue) ==
    /\ issue.key # Undefined /\ issue.key # Null
    /\ issue.fields.summary # Undefined /\ issue.fields.summary # Null
    /\ issue.fields.status.name # Undefined /\ issue.fields.status.name # Null

NameOrDefault(obj, prop, fallback) ==
    IF Absent(obj) \/ obj[prop] \in {Undefined, Null, ""} THEN fallback ELSE obj[prop]

DefaultsWhenAbsentOrEmpty(s, issue) ==
    CarriesRequired(issue) =>
        /\ DOMAIN s = SummaryFields
        /\ \A f \in SummaryFields : s[f] # Null
        /\ s.key = issue.key
        /\ s.summary = issue.fields.summary
        /\ s.status = issue.fields.status.name
        /\ s.assignee = NameOrDefault(issue.fields.assignee, "displayName", "Unassigned")
        /\ s.priority = NameOrDefault(issue.fields.priority, "name", "None")
        /\ s.reporter = NameOrDefault(issue.fields.reporter, "displayName", "Unknown")

IssueShaping == {"jira_get_issue", "jira_create_issue", "jira_update_issue"}

\* C4 as claimed: for every upstream issue for which a summary is returned, the
\* summary has all six fields present and non-null, and assignee / priority /
\* reporter are "Unassigned" / "None" / "Unknown" exactly when the upstream
\* field is absent, and the upstream display name / name otherwise.
C4_DefaultsExactlyWhenAbsent ==
    \A i \in Invocations :
        (Done(i) /\ inv[i].resp.kind = "json") =>
            LET v == LastExchange(i).reply.body.value IN
            /\ inv[i].tool \in IssueShaping => DefaultsExactlyWhenAbsent(inv[i].resp.json, v)
            /\ inv[i].tool = "jira_search" =>
                  \A k \in 1..Len(v.issues.items) :
                      DefaultsExactlyWhenAbsent(inv[i].resp.json.issues[k], v.issues.items[k])

\* C4 as amended: for every upstream issue that carries a key, a summary and a
\* status name and for which a summary is returned, the summary has all six
\* fields present and non-null, and assignee / priority / reporter are the
\* defaults exactly when the upstream field is absent, null, or has an empty or
\* missing display name / name, and the upstream display name / name otherwise.
C4_DefaultsWhenAbsentOrEmpty ==
    \A i \in Invocations :
        (Done(i) /\ inv[i].resp.kind = "json") =>
            LET v == LastExchange(i).reply.body.value IN
            /\ inv[i].tool \in IssueShaping => DefaultsWhenAbsentOrEmpty(inv[i].resp.json, v)
            /\ inv[i].tool = "jira_search" =>
                  \A k \in 1..Len(v.issues.items) :
                      DefaultsWhenAbsentOrEmpty(inv[i].resp.json.issues[k],
                                                v.issues.items[k])

C4_Witness ==
    \E i \in Invocations :
        /\ Done(i)
        /\ inv[i].tool = "jira_search"
        /\ inv[i].resp.kind = "json"
        /\ Len(inv[i].resp.json.issues) = 2
        /\ LastExchange(i).reply.body.value.issues.items[2].fields.reporter = UserObj("")
        /\ inv[i].resp.json.issues[2].reporter = "Unknown"
        /\ inv[i].resp.json.issues[2].assignee = "Unassigned"
        /\ inv[i].resp.json.issues[1].assignee = "Alice"

(***************************************************************************)
(* C5: update_issue with summary, description, assignee and priority all   *)
(* absent returns the text `Error: No fields provided to update` and makes *)
(* no upstream call.                                                       *)
(***************************************************************************)
AllAbsent(args) == \A f \in UpdateFieldNames : args[f] = Undefined

C5_EmptyUpdateRejected ==
    \A i \in Invocations :
        (inv[i].tool = "jira_update_issue" /\ AllAbsent(inv[i].args)) =>
            /\ Done(i)
            /\ inv[i].resp = TextResponse(<<"Error: ", "No fields provided to update">>)
            /\ ExchangesOf(i) = {}
            /\ \A k \in 1..Len(requests) : requests[k].inv # i

C5_Witness ==
    \E i \in Invocations :
        /\ inv[i].tool = "jira_update_issue"
        /\ AllAbsent(inv[i].args)
        /\ Done(i)
        /\ requests = <<>>

(***************************************************************************)
(* C6: whatever subset of summary, description, assignee, priority is      *)
(* supplied to update_issue, the fields object of the PUT body holds       *)
(* exactly the supplied fields, assignee and priority as {name: value},    *)
(* summary and description unchanged.                                      *)
(***************************************************************************)
Supplied(args) == {f \in UpdateFieldNames : args[f] # Undefined}

C6_PutBodyHoldsSuppliedFields ==
    \A k \in 1..Len(requests) :
        requests[k].method = "PUT" =>
            LET args == inv[requests[k].inv].args
                fields == requests[k].body.fields
            IN /\ inv[requests[k].inv].tool = "jira_update_issue"
               /\ DOMAIN requests[k].body = {"fields"}
               /\ DOMAIN fields = Supplied(args)
               /\ \A f \in Supplied(args) \cap {"summary", "description"} :
                      fields[f] = args[f]
               /\ \A f \in Supplied(args) \cap {"assignee", "priority"} :
                      fields[f] = [name |-> args[f]]

C6_Witness ==
    \E k \in 1..Len(requests) :
        /\ requests[k].method = "PUT"
        /\ Supplied(inv[requests[k].inv].args) = {"summary", "assignee"}
        /\ inv[requests[k].inv].args.summary = ""
        /\ DOMAIN requests[k].body.fields = {"summary", "assignee"}
        /\ requests[k].body.fields.assignee = [name |-> "alice"]

(***************************************************************************)
(* C7: create_issue sends the follow-up GET issue/{key} only after its     *)
(* POST to issue has succeeded, at most once, and with the key that POST   *)
(* returned; after a failed POST there is no follow-up.                    *)
(***************************************************************************)
C7_FollowUpOnlyAfterCreate ==
    \A i \in Invocations :
        inv[i].tool = "jira_create_issue" =>
            LET ex == ExchangeSeq(i) IN
            /\ Len(ex) \in {1, 2}
            /\ IsIssuePost(ex[1])
            /\ (NetworkFailed(ex[1].reply) \/ ErrorStatus(ex[1].reply)) => Len(ex) = 1
            /\ Len(ex) = 2 =>
                  /\ SuccessJson(ex[1].reply)
                  /\ ex[1].reply.body.value.tag = "obj"
                  /\ ex[2].method = "GET"
                  /\ ex[2].url = <<JIRA_MCP_URL, "/rest/api/2/", "issue/",
                                   TemplateStr(ex[1].reply.body.value.key)>>

C7_Witness ==
    \E i \in Invocations :
        /\ inv[i].tool = "jira_create_issue"
        /\ Done(i)
        /\ Len(ExchangeSeq(i)) = 2
        /\ ExchangeSeq(i)[1].reply.body.value.key = "PROJ-2"
        /\ ExchangeSeq(i)[2].url[4] = "PROJ-2"
        /\ inv[i].resp.kind = "json"

(***************************************************************************)
(* C8: when upstream answers the POST to issue/{issueKey}/transitions with *)
(* a success status and no body, transition_issue returns `Successfully    *)
(* transitioned issue <issueKey>`, having made exactly one upstream call.  *)
(***************************************************************************)
C8_TransitionConfirmed ==
    \A i \in Invocations :
        (/\ Done(i)
         /\ inv[i].tool = "jira_transition_issue"
         /\ SuccessStatus(LastExchange(i).reply)
         /\ LastExchange(i).reply.body.kind = "empty")
        => /\ inv[i].resp = TextResponse(<<"Successfully transitioned issue ",
                                           inv[i].args.issueKey>>)
           /\ Cardinality(ExchangesOf(i)) = 1

(***************************************************************************)
(* C9: update_issue with a non-empty payload first sends PUT               *)
(* issue/{issueKey}; whenever the PUT is answered with a success status it *)
(* then sends GET issue/{issueKey} and, if the GET succeeds, returns the   *)
(* refreshed IssueSummary; the GET is never sent before the PUT or after a *)
(* failed PUT.                                                             *)
(***************************************************************************)
C9_PutThenGet ==
    \A i \in Invocations :
        (inv[i].tool = "jira_update_issue" /\ ~AllAbsent(inv[i].args)) =>
            LET ex == ExchangeSeq(i) IN
            /\ Len(ex) \in {1, 2}
            /\ IsIssuePut(ex[1])
            /\ (NetworkFailed(ex[1].reply) \/ ErrorStatus(ex[1].reply)) => Len(ex) = 1
            /\ SuccessStatus(ex[1].reply) =>
                  /\ Len(ex) = 2
                  /\ IsIssueGet(ex[2])
                  /\ ex[2].url[4] = inv[i].args.issueKey
                  /\ (Done(i) /\ SuccessJson(ex[2].reply)
                        /\ IssueHasShape(ex[2].reply.body.value))
                       => /\ inv[i].resp.kind = "json"
                          /\ inv[i].resp.json
                                = JsonStringify(IssueSummaryOf(ex[2].reply.body.value))

(***************************************************************************)
(* C10: in create_issue and update_issue, once the first call (POST/PUT)   *)
(* has succeeded and the follow-up GET has failed, the invocation has      *)
(* returned an `Error:` text and its upstream calls are those two and no   *)
(* other: no rollback, no delete, no repeat of either step.                *)
(***************************************************************************)
C10_NoRollbackAfterFailedFetch ==
    \A i \in Invocations :
        (/\ inv[i].tool \in {"jira_create_issue", "jira_update_issue"}
         /\ Cardinality(ExchangesOf(i)) >= 2
         /\ FailedBeneath(ExchangeSeq(i)[2]))
        => LET ex == ExchangeSeq(i) IN
           /\ SuccessStatus(ex[1].reply)
           /\ Done(i)
           /\ IsErrorText(inv[i].resp)
           /\ Len(ex) = 2
           /\ ex[1].method = (IF inv[i].tool = "jira_create_issue" THEN "POST" ELSE "PUT")
           /\ ex[2].method = "GET"

C10_Witness ==
    \E i \in Invocations :
        /\ inv[i].tool = "jira_create_issue"
        /\ Cardinality(ExchangesOf(i)) = 2
        /\ ExchangeSeq(i)[1].reply.status = 201
        /\ NetworkFailed(ExchangeSeq(i)[2].reply)
        /\ Done(i)
        /\ IsErrorText(inv[i].resp)

(***************************************************************************)
(* C11: a search invoked without maxResults sends an upstream call that    *)
(* requests exactly maxResults=50, and startAt=0 when startAt is omitted   *)
(* too; a supplied maxResults or startAt is transmitted unchanged.         *)
(***************************************************************************)
C11_SearchDefaults ==
    \A k \in 1..Len(requests) :
        IsSearchGet(requests[k]) =>
            LET raw == inv[requests[k].inv].raw
                url == requests[k].url
                n == Len(url)
            IN /\ inv[requests[k].inv].tool = "jira_search"
               /\ url[n - 3] = "&startAt="
               /\ url[n - 2] = (IF raw.startAt = <<>> THEN "0" ELSE ToString(raw.startAt[1]))
               /\ url[n - 1] = "&maxResults="
               /\ url[n] = (IF raw.maxResults = <<>> THEN "50"
                            ELSE ToString(raw.maxResults[1]))
               /\ \A m \in 1..(n - 4) : url[m] # "&maxResults=" /\ url[m] # "&startAt="

C11_Witness ==
    \E k \in 1..Len(requests) :
        /\ IsSearchGet(requests[k])
        /\ inv[requests[k].inv].raw.maxResults = <<>>
        /\ inv[requests[k].inv].raw.startAt = <<10>>
        /\ SubSeq(requests[k].url, Len(requests[k].url) - 3, Len(requests[k].url))
              = <<"&startAt=", "10", "&maxResults=", "50">>

(***************************************************************************)
(* C12: the REST client makes one HTTP attempt per makeRequest call,       *)
(* whatever the outcome: an invocation of get_issue, search,               *)
(* transition_issue or add_comment has at most one upstream call, one of   *)
(* create_issue or update_issue at most two; no call of an invocation is   *)
(* sent twice, none is sent after a call that failed, and at most one      *)
(* awaits its answer.                                                      *)
(***************************************************************************)
MaxCalls(tool) == IF tool \in {"jira_create_issue", "jira_update_issue"} THEN 2 ELSE 1

RequiredArguments(tool) ==
    CASE tool = "jira_get_issue" -> {"issueKey"}
      [] tool = "jira_search" -> {"jql"}
      [] tool = "jira_create_issue" -> {"projectKey", "issueType", "summary"}
      [] tool = "jira_update_issue" -> {"issueKey"}
      [] tool = "jira_transition_issue" -> {"issueKey", "transitionId"}
      [] tool = "jira_add_comment" -> {"issueKey", "comment"}

NumberArguments == {"startAt", "maxResults"}

FailsSchema(tool, raw) ==
    \/ \E k \in RequiredArguments(tool) : raw[k].type = "undefined"
    \/ \E k \in DOMAIN raw :
          /\ raw[k].type # "undefined"
          /\ raw[k].type # (IF k \in NumberArguments THEN "number" ELSE "string")

\* the arguments invocation i was called with, as received
Received(i) ==
    IF inv[i].pc = "rejected" THEN inv[i].raw
    ELSE IF inv[i].tool = "jira_search" THEN inv[i].raw.received
    ELSE inv[i].args.received

C13_InvalidArgumentsMakeNoCall ==
    \A i \in Invocations :
        (inv[i].pc # "idle" /\ FailsSchema(inv[i].tool, Received(i))) =>
            /\ inv[i].pc = "rejected"
            /\ ExchangesOf(i) = {}
            /\ \A k \in 1..Len(requests) : requests[k].inv # i
            /\ inv[i].resp.kind \notin {"text", "json"}

C13_Witness ==
    \E i \in Invocations :
        /\ inv[i].pc = "rejected"
        /\ inv[i].tool = "jira_search"
        /\ inv[i].raw.jql.type = "string"
        /\ inv[i].raw.startAt = Str("ten")
        /\ requests = <<>>

(***************************************************************************)
(* C14: if JIRA_MCP_URL or JIRA_MCP_TOKEN is missing at startup, an error  *)
(* is logged and the process exits with a nonzero status before any tool   *)
(* is registered and before any transport is started; no tool invocation   *)
(* is ever served in that run.                                             *)
(***************************************************************************)
MissingRequired == Falsy(env.JIRA_MCP_URL) \/ Falsy(env.JIRA_MCP_TOKEN)

HasErrorEntry(message) ==
    \E m \in 1..Len(logs) : logs[m].level = "error" /\ logs[m].message = message

C14_MissingConfigAbortsStartup ==
    /\ [](MissingRequired =>
            /\ proc.phase \in {"boot", "exited"}
            /\ proc.tools = {}
            /\ proc.transport = NoTransport
            /\ \A i \in Invocations : inv[i] = Idle
            /\ requests = <<>>
            /\ proc.phase = "exited" =>
                  /\ proc.exitCode # 0
                  /\ HasErrorEntry(RequiredMessage(IF Falsy(env.JIRA_MCP_URL)
                                                   THEN "JIRA_MCP_URL"
                                                   ELSE "JIRA_MCP_TOKEN")))
    /\ [][(MissingRequired /\ proc.phase = "boot") => proc'.phase = "exited"]_vars

C14_Witness ==
    /\ env.JIRA_MCP_URL = JIRA_MCP_URL
    /\ env.JIRA_MCP_TOKEN = Undefined
    /\ env.JIRA_MCP_DEBUG = "error"
    /\ proc.phase = "exited"
    /\ proc.exitCode = 1
    /\ Len(logs) = 2
    /\ HasErrorEntry(RequiredMessage("JIRA_MCP_TOKEN"))

(***************************************************************************)
(* C15: provided every upstream call that was sent completes in the end    *)
(* (with an HTTP response or a network failure), every tool invocation     *)
(* returns in the end, and returns one textual response: once returned,    *)
(* the response never changes.  This layer applies no timeout and no       *)
(* cancellation: an invocation has not responded as long as a call of its  *)
(* own awaits its answer.                                                  *)
(***************************************************************************)
AwaitsAnswer(i) == \E k \in ExchangesOf(i) : requests[k].reply = NoReply

C15_EveryInvocationResponds ==
    /\ \A i \in OneCaller :
          (inv[i].pc # "idle") ~> (Done(i) /\ inv[i].resp.kind \in {"text", "json"})
    /\ [][\A i \in Invocations : Done(i) => inv'[i] = inv[i]]_vars
    /\ [](\A i \in Invocations : AwaitsAnswer(i) => inv[i].resp = NoResponse)

C15_Witness ==
    \E i \in Invocations :
        /\ Done(i)
        /\ inv[i].tool = "jira_update_issue"
        /\ Len(ExchangeSeq(i)) = 2
        /\ ~AwaitsAnswer(i)
        /\ inv[i].resp.kind = "json"

(***************************************************************************)
(* C16: concurrent invocations are independent.  Under every interleaving  *)
(* a step of one invocation leaves the other invocation and its upstream   *)
(* calls as they were, and writes no shared state but the log, to which it *)
(* only appends (the configuration, with the credential, and the threshold *)
(* are only read); two invocations of the same tool with the same          *)
(* arguments whose calls got the same answers have the same response,      *)
(* whatever ran in between; and an invocation whose call awaits its answer *)
(* can take that answer whatever state the other is in, blocked or failed. *)
(***************************************************************************)
RepliesOf(i) == [n \in 1..Len(ExchangeSeq(i)) |-> ExchangeSeq(i)[n].reply]

\* an answer to the awaited call of invocation i can be taken
CanComplete(i) ==
    \/ ENABLED (\E reply \in ConcIssueReplies : GetIssueResponse(i, reply))
    \/ ENABLED (\E reply \in FewEmptyReplies : UpdatePutResponse(i, reply))
    \/ ENABLED (\E reply \in ConcIssueReplies : UpdateGetResponse(i, reply))
    \/ ENABLED (\E reply \in FewEmptyReplies : TransitionResponse(i, reply))

C16_InvocationsIndependent ==
    /\ [][\A i \in Invocations :
             inv'[i] # inv[i] =>
                 /\ \A j \in Invocations \ {i} :
                       /\ inv'[j] = inv[j]
                       /\ ExchangeSeq(j)' = ExchangeSeq(j)
                 /\ <<debugLevel, env, proc>>' = <<debugLevel, env, proc>>
                 /\ Len(logs') >= Len(logs)
                 /\ SubSeq(logs', 1, Len(logs)) = logs]_vars
    /\ [](\A i, j \in Invocations :
             (/\ Done(i) /\ Done(j)
              /\ inv[i].tool = inv[j].tool
              /\ inv[i].args = inv[j].args
              /\ RepliesOf(i) = RepliesOf(j))
             => inv[i].resp = inv[j].resp)
    /\ [](\A i \in Invocations : AwaitsAnswer(i) => CanComplete(i))

C16_Witness ==
    /\ Done(1) /\ Done(2)
    /\ inv[1].tool = "jira_update_issue" /\ inv[2].tool = "jira_update_issue"
    /\ Len(requests) = 4
    /\ requests[1].inv = 1 /\ requests[2].inv = 2
    /\ requests[3].inv = 2 /\ requests[4].inv = 1
    /\ NetworkFailed(requests[3].reply)
    /\ IsErrorText(inv[2].resp)
    /\ inv[1].resp.kind = "json"

(***************************************************************************)
(* C17: the fields object POSTed by create_issue.                          *)
(***************************************************************************)
\* the rich-text document that holds text verbatim
HoldsVerbatim(doc, text) ==
    doc = [type |-> "doc", version |-> 1,
           content |-> <<[type |-> "paragraph",
                          content |-> <<[type |-> "text", text |-> text]>>]>>]

OptionalCreateFields == {"description", "assignee", "priority"}

\* fields is what create_issue sends for args, the optional field f being sent
\* exactly when Sent(f)
CreateFieldsAsClaimed(fields, args, Sent(_)) ==
    /\ {"project", "issuetype", "summary"} \subseteq DOMAIN fields
    /\ fields.project = [key |-> args.projectKey]
    /\ fields.issuetype = [name |-> args.issueType]
    /\ fields.summary = args.summary
    /\ \A f \in OptionalCreateFields : f \in DOMAIN fields <=> Sent(f)
    /\ DOMAIN fields \subseteq {"project", "issuetype", "summary"} \cup OptionalCreateFields
    /\ "description" \in DOMAIN fields => HoldsVerbatim(fields.description, args.description)
    /\ "assignee" \in DOMAIN fields => fields.assignee = [name |-> args.assignee]
    /\ "priority" \in DOMAIN fields => fields.priority = [name |-> args.priority]

\* C17 as claimed: the fields object POSTed by create_issue always contains
\* project.key, issuetype.name and summary, and contains each of description,
\* assignee and priority exactly when the caller supplied that argument:
\* description as a rich-text body holding the text verbatim, assignee as
\* {name: assignee}, priority as {name: priority}.
C17_OptionalFieldsExactlyWhenSupplied ==
    \A k \in 1..Len(requests) :
        IsIssuePost(requests[k]) =>
            LET args == inv[requests[k].inv].args
                Sent(f) == args[f] # Undefined
            IN CreateFieldsAsClaimed(requests[k].body.fields, args, Sent)

\* C17 as amended: the same, with each of description, assignee and priority
\* contained exactly when the caller supplied that argument and it is not the
\* empty string.
C17_OptionalFieldsWhenSuppliedNonEmpty ==
    \A k \in 1..Len(requests) :
        IsIssuePost(requests[k]) =>
            LET args == inv[requests[k].inv].args
                Sent(f) == args[f] # Undefined /\ args[f] # ""
            IN /\ inv[requests[k].inv].tool = "jira_create_issue"
               /\ DOMAIN requests[k].body = {"fields"}
               /\ CreateFieldsAsClaimed(requests[k].body.fields, args, Sent)

C17_Witness ==
    \E k \in 1..Len(requests) :
        /\ IsIssuePost(requests[k])
        /\ inv[requests[k].inv].args.description = ""
        /\ inv[requests[k].inv].args.priority = "High"
        /\ inv[requests[k].inv].args.assignee = Undefined
        /\ DOMAIN requests[k].body.fields = {"project", "issuetype", "summary", "priority"}
        /\ requests[k].body.fields.priority = [name |-> "High"]

(***************************************************************************)
(* C18: the body POSTed by transition_issue.                               *)
(***************************************************************************)
IsTransitionPost(r) ==
    r.method = "POST" /\ Len(r.url) = 5 /\ r.url[5] = "/transitions"

\* body is what transition_issue sends for args, the comment being sent exactly
\* when sent holds
TransitionBodyAsClaimed(body, args, sent) ==
    /\ "transition" \in DOMAIN body
    /\ body.transition = [id |-> args.transitionId]
    /\ "update" \in DOMAIN body <=> sent
    /\ DOMAIN body \subseteq {"transition", "update"}
    /\ "update" \in DOMAIN body =>
          /\ DOMAIN body.update = {"comment"}
          /\ Len(body.update.comment) = 1
          /\ DOMAIN body.update.comment[1] = {"add"}
          /\ DOMAIN body.update.comment[1].add = {"body"}
          /\ HoldsVerbatim(body.update.comment[1].add.body, args.comment)

\* C18 as claimed: the body POSTed by transition_issue always contains
\* transition.id equal to the transitionId argument, and contains
\* update.comment[0].add.body, a rich-text body holding the comment verbatim,
\* exactly when a comment argument was supplied.
C18_CommentExactlyWhenSupplied ==
    \A k \in 1..Len(requests) :
        IsTransitionPost(requests[k]) =>
            LET args == inv[requests[k].inv].args IN
            TransitionBodyAsClaimed(requests[k].body, args, args.comment # Undefined)

\* C18 as amended: the same, with update.comment[0].add.body contained exactly
\* when a comment argument was supplied and is not the empty string.
C18_CommentWhenSuppliedNonEmpty ==
    \A k \in 1..Len(requests) :
        IsTransitionPost(requests[k]) =>
            LET args == inv[requests[k].inv].args IN
            /\ inv[requests[k].inv].tool = "jira_transition_issue"
            /\ TransitionBodyAsClaimed(requests[k].body, args,
                                       args.comment # Undefined /\ args.comment # "")

C18_Witness ==
    \E k \in 1..Len(requests) :
        /\ IsTransitionPost(requests[k])
        /\ inv[requests[k].inv].args.comment = "done"
        /\ requests[k].body.transition.id = "31"
        /\ requests[k].body.update.comment[1].add.body.content[1].content[1].text = "done"

(***************************************************************************)
(* C19: run with --remote the server serves over the HTTP transport on the *)
(* port given by JIRA_MCP_PORT, and otherwise (no flag, or --stdio) over   *)
(* stdio; exactly one transport is started; JIRA_MCP_PORT is required only *)
(* in --remote mode, where its absence aborts startup with a logged error. *)
(***************************************************************************)
PortMissing == ~env.JIRA_MCP_PORT.set \/ env.JIRA_MCP_PORT.chars = <<>>

PortIsNumber ==
    /\ ~PortMissing
    /\ \A k \in 1..Len(env.JIRA_MCP_PORT.chars) : IsDigit(env.JIRA_MCP_PORT.chars[k])

\* the server serves over HTTP, on the port JIRA_MCP_PORT gives when that is a number
ServesOverHttp ==
    /\ proc.transport.transportType = "httpStream"
    /\ PortIsNumber => /\ ~proc.transport.port.nan
                       /\ proc.transport.port.n = DigitsValue(env.JIRA_MCP_PORT.chars,
                                                              Len(env.JIRA_MCP_PORT.chars))

ServesOverStdio == proc.transport = [transportType |-> "stdio"]

\* remote stands for "the run is in --remote mode"
TransportAsClaimed(remote) ==
    /\ proc.phase \in {"boot", "ui"} => proc.transport = NoTransport
    /\ proc.phase = "serving" => IF remote THEN ServesOverHttp ELSE ServesOverStdio
    /\ (proc.phase = "exited" /\ ~MissingRequired) =>
          /\ remote /\ PortMissing
          /\ proc.transport = NoTransport
          /\ HasErrorEntry(RemoteRequiredMessage)
    /\ (remote /\ PortMissing) => proc.phase \in {"boot", "exited"}

C19_RemoteFlagSelectsHttp == TransportAsClaimed("--remote" \in env.args)

(***************************************************************************)
(* The logger on its own (logger.ts), driven as test-server.ts drives it:  *)
(* a logger is constructed with the configured threshold, the four methods *)
(* are called in any order, and getLogs is read.                           *)
(***************************************************************************)
MaxLogCalls == 3

Thresholds == {Undefined, "", "debug", "info", "warning", "error", "verbose"}

LogMessages == {<<"This is a message">>, <<"This is another message">>}

TestDetails == [test |-> TRUE]

\* the driver before its first call; calls is the list of the calls it made
LoggerDriver == [tool |-> "logger", pc |-> "logging", calls |-> <<>>,
                 resp |-> [kind |-> "none"]]

Called(i, level, message) ==
    [inv EXCEPT ![i].calls = Append(@, [level |-> level, message |-> message])]

LoggerDebug(i, message) ==
    /\ inv[i].tool = "logger"
    /\ Len(inv[i].calls) < MaxLogCalls
    /\ logs' = LogDebug(logs, message, TestDetails)
    /\ inv' = Called(i, "debug", message)
    /\ UNCHANGED <<debugLevel, requests, env, proc>>

LoggerInfo(i, message) ==
    /\ inv[i].tool = "logger"
    /\ Len(inv[i].calls) < MaxLogCalls
    /\ logs' = LogInfo(logs, message, TestDetails)
    /\ inv' = Called(i, "info", message)
    /\ UNCHANGED <<debugLevel, requests, env, proc>>

LoggerWarning(i, message) ==
    /\ inv[i].tool = "logger"
    /\ Len(inv[i].calls) < MaxLogCalls
    /\ logs' = LogWarning(logs, message, TestDetails)
    /\ inv' = Called(i, "warning", message)
    /\ UNCHANGED <<debugLevel, requests, env, proc>>

LoggerError(i, message) ==
    /\ inv[i].tool = "logger"
    /\ Len(inv[i].calls) < MaxLogCalls
    /\ logs' = LogError(logs, message, TestDetails)
    /\ inv' = Called(i, "error", message)
    /\ UNCHANGED <<debugLevel, requests, env, proc>>

\* getLogs returns a copy of the list; after is the number of calls made before it
LoggerGetLogs(i) ==
    /\ inv[i].tool = "logger"
    /\ inv' = [inv EXCEPT ![i].resp = [kind |-> "logs", logs |-> logs,
                                       after |-> Len(inv[i].calls)]]
    /\ UNCHANGED <<debugLevel, logs, requests, env, proc>>

InitLogger ==
    /\ env \in {ConfiguredEnv(d) : d \in Thresholds}
    /\ debugLevel = LoggerConstructor(env.JIRA_MCP_DEBUG)
    /\ proc = Booting
    /\ logs = <<>>
    /\ inv = [i \in OneCaller |-> LoggerDriver]
    /\ requests = <<>>

NextLogger ==
    \/ \E i \in Invocations, message \in LogMessages : LoggerDebug(i, message)
    \/ \E i \in Invocations, message \in LogMessages : LoggerInfo(i, message)
    \/ \E i \in Invocations, message \in LogMessages : LoggerWarning(i, message)
    \/ \E i \in Invocations, message \in LogMessages : LoggerError(i, message)
    \/ \E i \in Invocations : LoggerGetLogs(i)

SpecLogger == InitLogger /\ [][NextLogger]_vars

(***************************************************************************)
(* C20: the logger records an entry of level L if and only if L is at or   *)
(* above the configured threshold in the order debug < info < warning <    *)
(* error; with no threshold configured the threshold is debug and every    *)
(* entry of all four levels is recorded; getLogs returns the recorded      *)
(* entries in the order they were logged.                                  *)
(***************************************************************************)
Severity(level) ==
    CASE level = "debug" -> 1
      [] level = "info" -> 2
      [] level = "warning" -> 3
      [] level = "error" -> 4

ThresholdConfigured == env.JIRA_MCP_DEBUG \notin {Undefined, ""}

ConfiguredThreshold == IF ThresholdConfigured THEN env.JIRA_MCP_DEBUG ELSE "debug"

RECURSIVE AtOrAbove(_, _)
\* the calls of a list whose level is at or above the threshold, in order
AtOrAbove(calls, threshold) ==
    IF calls = <<>> THEN <<>>
    ELSE LET rest == AtOrAbove(Tail(calls), threshold)
         IN IF Severity(Head(calls).level) >= Severity(threshold)
            THEN <<Head(calls)>> \o rest ELSE rest

\* the entries of a list are exactly the given calls, in the same order
RecordsExactly(entries, calls) ==
    /\ Len(entries) = Len(calls)
    /\ \A k \in 1..Len(calls) : /\ entries[k].level = calls[k].level
                                /\ entries[k].message = calls[k].message

C20_RecordedIffAtOrAboveThreshold ==
    \A i \in Invocations :
      (inv[i].tool = "logger" /\ ConfiguredThreshold \in {"debug", "info", "warning", "error"}) =>
        /\ RecordsExactly(logs, AtOrAbove(inv[i].calls, ConfiguredThreshold))
        /\ ~ThresholdConfigured => RecordsExactly(logs, inv[i].calls)
        /\ inv[i].resp.kind = "logs" =>
              RecordsExactly(inv[i].resp.logs,
                             AtOrAbove(SubSeq(inv[i].calls, 1, inv[i].resp.after),
                                       ConfiguredThreshold))

\* under threshold warning a debug call was dropped and a later error call
\* recorded, and getLogs has returned that entry
C20_Witness ==
    \E i \in Invocations :
      /\ inv[i].tool = "logger"
      /\ env.JIRA_MCP_DEBUG = "warning"
      /\ Len(inv[i].calls) >= 2
      /\ inv[i].calls[1].level = "debug"
      /\ inv[i].calls[2].level = "error"
      /\ inv[i].resp.kind = "logs"
      /\ inv[i].resp.after >= 2
      /\ Len(inv[i].resp.logs) >= 1
      /\ inv[i].resp.logs[1].level = "error"

(***************************************************************************)
(* The Node variant (index.js): a logger writing to mcp.log with a stderr  *)
(* fallback, a client whose configuration is checked on every request, and *)
(* six tools served over stdio.  In this variant env holds the variables   *)
(* JIRA_BASE_URL, JIRA_API_TOKEN and NODE_ENV and whether the working      *)
(* directory (cwd) and the temp directory (tmp) are writable now; proc     *)
(* holds the logger's logFile, the two files, stderr and the number of     *)
(* appendFileSync calls made; logs holds every entry handed to log(), in   *)
(* call order, seq standing for its timestamp.                             *)
(***************************************************************************)
MaxNodeCalls == 2

CannotWriteWarning ==
    [seq |-> 0, level |-> "console",
     message |-> "Warning: Cannot write log file, logging to stderr only"]

WriteFailedWarning ==
    [seq |-> 0, level |-> "console",
     message |-> "Warning: Log file write failed, switching to stderr only"]

\* the Logger constructor: p is the process, e the environment
NodeLoggerConstructor(p, e) ==
    IF e.cwd THEN [p EXCEPT !.logFile = "cwd"]
    ELSE IF e.tmp THEN [p EXCEPT !.logFile = "tmp"]
    ELSE [p EXCEPT !.logFile = Null, !.stderr = Append(@, CannotWriteWarning)]

\* a log() that turns file logging back on when the temp directory is writable
NodeLogReenables(s, level, message) ==
    LET entry == [seq |-> Len(s.logs) + 1, level |-> level, message |-> message]
        p == IF s.proc.logFile = Null /\ env.tmp
             THEN [s.proc EXCEPT !.logFile = "tmp"] ELSE s.proc
        tried == p.logFile # Null
        p1 == IF ~tried THEN p
              ELSE IF env[p.logFile]
              THEN [p EXCEPT !.files[p.logFile] = Append(@, entry), !.appends = @ + 1]
              ELSE [p EXCEPT !.logFile = Null, !.appends = @ + 1,
                             !.stderr = Append(@, WriteFailedWarning)]
        p2 == IF level = "error" \/ env.NODE_ENV = "development"
              THEN [p1 EXCEPT !.stderr = Append(@, entry)]
              ELSE p1
    IN [proc |-> p2, logs |-> Append(s.logs, entry)]

\* Logger.log: s is the pair of the process and the entries logged so far
NodeLog(s, level, message) ==
    LET entry == [seq |-> Len(s.logs) + 1, level |-> level, message |-> message]
        p == s.proc
        tried == p.logFile # Null
        p1 == IF ~tried THEN p
              ELSE IF env[p.logFile]
              THEN [p EXCEPT !.files[p.logFile] = Append(@, entry), !.appends = @ + 1]
              ELSE [p EXCEPT !.logFile = Null, !.appends = @ + 1,
                             !.stderr = Append(@, WriteFailedWarning)]
        p2 == IF level = "error" \/ env.NODE_ENV = "development"
              THEN [p1 EXCEPT !.stderr = Append(@, entry)]
              ELSE p1
    IN [proc |-> p2, logs |-> Append(s.logs, entry)]

RECURSIVE NodeLogAll(_, _)
\* consecutive calls of log(), each given as <<level, message>>
NodeLogAll(s, entries) ==
    IF entries = <<>> THEN s
    ELSE NodeLogAll(NodeLog(s, Head(entries)[1], Head(entries)[2]), Tail(entries))

\* the missingVars array of the constructor and of _checkConfiguration
MissingVars(p) ==
    (IF Falsy(p.baseUrl) THEN <<"JIRA_BASE_URL">> ELSE <<>>)
      \o (IF Falsy(p.apiToken) THEN <<"JIRA_API_TOKEN">> ELSE <<>>)

\* Array.prototype.join(', ')
JoinComma(names) ==
    IF Len(names) = 0 THEN <<>>
    ELSE IF Len(names) = 1 THEN <<names[1]>>
    ELSE <<names[1], ", ", names[2]>>

\* a configuration check that lets every request through
checkConfigurationSkipped(p) == [ok |-> TRUE]

\* _checkConfiguration: the error it throws, if any
checkConfiguration(p) ==
    IF Falsy(p.baseUrl) \/ Falsy(p.apiToken)
    THEN [ok |-> FALSE,
          error |-> <<"Missing required environment variables: ">>
                      \o JoinComma(MissingVars(p))
                      \o <<". Please set these before using JIRA tools.">>]
    ELSE [ok |-> TRUE]

\* line 122: the message of the error thrown for a status outside 2xx
NodeApiErrorMessage(reply) ==
    <<"JIRA API error: ", ToString(reply.status), " ", reply.statusText>>

\* per tool: the handler's first entry, the client's entry, the endpoint and
\* method, the entries of success and of failure, and whether the handler
\* reads a property of the result
NodeTools ==
    [jira_get_issue |->
       [start |-> "Getting JIRA issue", client |-> "Getting JIRA issue",
        endpoint |-> <<"issue/", "PROJ-1">>, method |-> "GET",
        done |-> "Successfully retrieved issue", failed |-> "Failed to get issue",
        reads |-> FALSE],
     jira_search |->
       [start |-> "Searching JIRA issues", client |-> "Searching JIRA issues",
        endpoint |-> <<"search">>, method |-> "POST",
        done |-> "Successfully searched issues", failed |-> "Failed to search issues",
        reads |-> TRUE],
     jira_create_issue |->
       [start |-> "Creating JIRA issue", client |-> "Creating JIRA issue",
        endpoint |-> <<"issue">>, method |-> "POST",
        done |-> "Successfully created issue", failed |-> "Failed to create issue",
        reads |-> TRUE],
     jira_update_issue |->
       [start |-> "Updating JIRA issue", client |-> "Updating JIRA issue",
        endpoint |-> <<"issue/", "PROJ-1">>, method |-> "PUT",
        done |-> "Successfully updated issue", failed |-> "Failed to update issue",
        reads |-> FALSE],
     jira_transition_issue |->
       [start |-> "Transitioning JIRA issue", client |-> "Transitioning JIRA issue",
        endpoint |-> <<"issue/", "PROJ-1", "/transitions">>, method |-> "POST",
        done |-> "Successfully transitioned issue",
        failed |-> "Failed to transition issue", reads |-> FALSE],
     jira_add_comment |->
       [start |-> "Adding comment to JIRA issue",
        client |-> "Adding comment to JIRA issue",
        endpoint |-> <<"issue/", "PROJ-1", "/comment">>, method |-> "POST",
        done |-> "Successfully added comment", failed |-> "Failed to add comment",
        reads |-> TRUE]]

NodeUnloaded ==
    [phase |-> "load", logFile |-> Undefined, baseUrl |-> Undefined,
     apiToken |-> Undefined, files |-> [cwd |-> <<>>, tmp |-> <<>>],
     stderr |-> <<>>, appends |-> 0]

NodeIdle == [pc |-> "idle", tool |-> "none", resp |-> NoResponse, calls |-> 0]

\* the module's top level up to the await in main(): the logger, the client
\* (lines 62-76), the registrations and connecting the stdio transport
NodeStartup ==
    /\ proc.phase = "load"
    /\ LET p0 == NodeLoggerConstructor(proc, env)
           p1 == [p0 EXCEPT !.baseUrl = env.JIRA_BASE_URL,
                            !.apiToken = env.JIRA_API_TOKEN]
           s1 == IF ~Falsy(p1.baseUrl) /\ ~Falsy(p1.apiToken)
                 THEN NodeLog([proc |-> p1, logs |-> logs], "info",
                              "JIRA client initialized")
                 ELSE NodeLog([proc |-> p1, logs |-> logs], "warning",
                        "JIRA client not configured - missing environment variables")
           s2 == NodeLog(s1, "info", "Starting JIRA MCP server")
       IN /\ proc' = [s2.proc EXCEPT !.phase = "serving"]
          /\ logs' = s2.logs
    /\ UNCHANGED <<debugLevel, inv, requests, env>>

\* a tool handler up to its first await: either the configuration check
\* throws and the handler's catch logs and rethrows, or the request is sent
NodeCallTool(i, tool) ==
    /\ proc.phase = "serving"
    /\ inv[i].pc \in {"idle", "done"}
    /\ inv[i].calls < MaxNodeCalls
    /\ LET t == NodeTools[tool]
           s1 == NodeLogAll([proc |-> proc, logs |-> logs],
                            <<<<"info", t.start>>, <<"info", t.client>>>>)
           check == checkConfiguration(proc)
       IN IF ~check.ok
          THEN LET s2 == NodeLog(s1, "error", t.failed)
               IN /\ proc' = s2.proc
                  /\ logs' = s2.logs
                  /\ inv' = [inv EXCEPT ![i] = [pc |-> "done", tool |-> tool,
                                               calls |-> @.calls + 1,
                                               resp |-> [kind |-> "error",
                                                         message |-> check.error]]]
                  /\ UNCHANGED requests
          ELSE LET s2 == NodeLog(s1, "debug", "Making JIRA API request")
               IN /\ proc' = s2.proc
                  /\ logs' = s2.logs
                  /\ inv' = [inv EXCEPT ![i] = [pc |-> "fetch", tool |-> tool,
                                               calls |-> @.calls + 1,
                                               resp |-> NoResponse]]
                  /\ requests' = Append(requests,
                        [inv |-> i, method |-> t.method,
                         url |-> <<TemplateStr(proc.baseUrl), "/rest/api/2/">>
                                   \o t.endpoint,
                         headers |-> [Authorization |->
                                        <<"Bearer ", TemplateStr(proc.apiToken)>>,
                                      Accept |-> "application/json",
                                      ContentType |-> "application/json"],
                         reply |-> NoReply])
    /\ UNCHANGED <<debugLevel, env>>

\* the rest of makeRequest (lines 100-130) and of the handler, once fetch settles
NodeToolResponse(i, reply) ==
    /\ inv[i].pc = "fetch"
    /\ LET t == NodeTools[inv[i].tool]
           s0 == [proc |-> proc, logs |-> logs]
           failure(s, message) ==
               LET s2 == NodeLog(s, "error", t.failed)
               IN /\ proc' = s2.proc
                  /\ logs' = s2.logs
                  /\ inv' = [inv EXCEPT ![i].pc = "done",
                                        ![i].resp = [kind |-> "error",
                                                     message |-> message]]
       IN IF reply.net = "fail"
          THEN failure(NodeLog(s0, "error", "JIRA API request error"), <<reply.cause>>)
          ELSE IF ~ResponseOk(reply)
          THEN failure(NodeLogAll(s0, <<<<"error", "JIRA API request failed">>,
                                        <<"error", "JIRA API request error">>>>),
                       NodeApiErrorMessage(reply))
          ELSE LET s1 == NodeLog(s0, "debug", "JIRA API request successful")
               IN IF t.reads /\ reply.body.kind = "empty"
                  THEN failure(s1, TypeErrorMessage("null", "key"))
                  ELSE LET s2 == NodeLog(s1, "info", t.done)
                       IN /\ proc' = s2.proc
                          /\ logs' = s2.logs
                          /\ inv' = [inv EXCEPT ![i].pc = "done",
                                                ![i].resp = [kind |-> "text",
                                                             text |-> BodyText(reply.body)]]
    /\ requests' = Settle(i, reply)
    /\ UNCHANGED <<debugLevel, env>>

\* after startup the directory of the log file becomes read-only or writable
\* again; once file logging is off either directory may change
FileSystemChanges(dir) ==
    /\ proc.phase = "serving"
    /\ dir = proc.logFile \/ proc.logFile = Null
    /\ env' = [env EXCEPT ![dir] = ~@]
    /\ UNCHANGED <<debugLevel, logs, inv, requests, proc>>

NodeEnvs ==
    [JIRA_BASE_URL : {Undefined, "", JIRA_MCP_URL},
     JIRA_API_TOKEN : {Undefined, JIRA_MCP_TOKEN},
     NODE_ENV : {Undefined, "development"},
     cwd : BOOLEAN, tmp : BOOLEAN]

NodeReplies ==
    {NetworkFailure, HttpReply(200, "OK", TextBody("<json>")),
     HttpReply(204, "No Content", EmptyBody),
     HttpReply(404, "Not Found", TextBody("<json>"))}

InitNode ==
    /\ env \in NodeEnvs
    /\ debugLevel = Undefined
    /\ proc = NodeUnloaded
    /\ logs = <<>>
    /\ inv = [i \in OneCaller |-> NodeIdle]
    /\ requests = <<>>

NextNode ==
    \/ NodeStartup
    \/ \E i \in Invocations, tool \in DOMAIN NodeTools : NodeCallTool(i, tool)
    \/ \E i \in Invocations, reply \in NodeReplies : NodeToolResponse(i, reply)
    \/ \E dir \in {"cwd", "tmp"} : FileSystemChanges(dir)

SpecNode == InitNode /\ [][NextNode]_vars

(***************************************************************************)
(* C21: in the Node variant, when file logging fails (no writable log      *)
(* location at construction, or a failed append) logging falls back to     *)
(* stderr: every later entry, of every level, is written to stderr and no  *)
(* entry is lost, i.e. every entry handed to log() is in a log file or on  *)
(* stderr.                                                                 *)
(***************************************************************************)
InSeq(seq, x) == \E k \in 1..Len(seq) : seq[k] = x

InLogFile(entry) == InSeq(proc.files.cwd, entry) \/ InSeq(proc.files.tmp, entry)

C21_FallbackLosesNoEntry ==
    (proc.phase = "serving" /\ proc.logFile = Null) =>
        \A k \in 1..Len(logs) : InLogFile(logs[k]) \/ InSeq(proc.stderr, logs[k])

(***************************************************************************)
(* C22: in the Node variant a missing JIRA_BASE_URL or JIRA_API_TOKEN does *)
(* not prevent the server from starting; every JIRA tool call made in that *)
(* state fails with an error message naming exactly the missing variables, *)
(* and no network call is made.                                            *)
(***************************************************************************)
BaseUrlMissing == env.JIRA_BASE_URL \in {Undefined, ""}

ApiTokenMissing == env.JIRA_API_TOKEN \in {Undefined, ""}

MissingConfigurationMessage ==
    <<"Missing required environment variables: ">>
      \o (CASE BaseUrlMissing /\ ApiTokenMissing ->
                 <<"JIRA_BASE_URL", ", ", "JIRA_API_TOKEN">>
            [] BaseUrlMissing /\ ~ApiTokenMissing -> <<"JIRA_BASE_URL">>
            [] ~BaseUrlMissing /\ ApiTokenMissing -> <<"JIRA_API_TOKEN">>
            [] OTHER -> <<>>)
      \o <<". Please set these before using JIRA tools.">>

C22_UnconfiguredCallsFailBeforeNetwork ==
    (BaseUrlMissing \/ ApiTokenMissing) =>
        /\ proc.phase = "load" => ENABLED NodeStartup
        /\ proc.phase = "serving" =>
              \A tool \in DOMAIN NodeTools : \A i \in Invocations :
                  inv[i].calls < MaxNodeCalls => ENABLED NodeCallTool(i, tool)
        /\ requests = <<>>
        /\ \A i \in Invocations :
              inv[i].pc # "idle" =>
                  /\ inv[i].pc = "done"
                  /\ inv[i].resp = [kind |-> "error",
                                    message |-> MissingConfigurationMessage]

\* the server started without the base URL and a tool call has failed
C22_Witness ==
    /\ BaseUrlMissing /\ ~ApiTokenMissing
    /\ proc.phase = "serving"
    /\ \E i \in Invocations :
          /\ inv[i].pc = "done"
          /\ inv[i].tool = "jira_search"
          /\ inv[i].resp.kind = "error"
          /\ inv[i].resp.message = MissingConfigurationMessage
    /\ requests = <<>>

(***************************************************************************)
(* C23: every tool invocation that ends in a failure response, whatever    *)
(* the failure kind (validation or business-rule failure such as the empty *)
(* update payload, upstream API error, transport error), has recorded an   *)
(* error-level entry naming the operation by the time the response is      *)
(* returned.                                                               *)
(***************************************************************************)
IsFailureResponse(resp) == resp.kind = "text" /\ Head(resp.text) = "Error: "

NamesOperation(entry, tool) ==
    /\ entry.level = "error"
    /\ Len(entry.message) >= 2
    /\ entry.message[1] = "Error in "
    /\ entry.message[2] = tool

C23_FailureResponsesAreLogged ==
    [][\A i \in Invocations :
         (inv[i].pc # "done" /\ inv'[i].pc = "done" /\ IsFailureResponse(inv'[i].resp)) =>
             \E k \in 1..Len(logs') : NamesOperation(logs'[k], inv'[i].tool)]_vars

(***************************************************************************)
(* C24: for every outbound call the REST client emits a debug-level        *)
(* diagnostic with method and URL before the HTTP request is issued, a     *)
(* debug-level diagnostic with the status once the call completes, and an  *)
(* error-level diagnostic on any failure; the pre-call entry precedes the  *)
(* other two.  Stated on the steps that issue and settle a request: each   *)
(* appends its diagnostics to the log, so those of the settling step come  *)
(* after the pre-call entry of the earlier issuing step.  Debug entries    *)
(* are recorded when the threshold lets the debug level through.           *)
(***************************************************************************)
DebugPasses == debugLevel \notin {"info", "warning", "error"}

\* the entries a step has appended to the log
Appended == SubSeq(logs', Len(logs) + 1, Len(logs'))

IsPreCallEntry(entry, r) ==
    /\ entry.level = "debug"
    /\ DOMAIN entry.details = {"url", "method"}
    /\ entry.details.url = r.url
    /\ entry.details.method = r.method

IsCompletionEntry(entry, r) ==
    /\ entry.level = "debug"
    /\ DOMAIN entry.details = {"url", "status"}
    /\ entry.details.url = r.url
    /\ entry.details.status = r.reply.status

IsFailureEntry(entry, r) ==
    /\ entry.level = "error"
    /\ "url" \in DOMAIN entry.details
    /\ entry.details.url = r.url

CallSucceeded(r) ==
    /\ r.reply.net = "ok"
    /\ r.reply.status \in 200..299
    /\ r.reply.body.kind = "json"

UpstreamResult(i) ==
    LET n == CHOOSE n \in 1..Len(requests) : requests[n].inv = i
    IN requests[n].reply.body.value

DisplayNameOr(user, fallback) ==
    IF user.tag = "obj" /\ user.displayName \notin {Undefined, Null, ""}
    THEN user.displayName ELSE fallback

NameOr(obj, fallback) ==
    IF obj.tag = "obj" /\ obj.name \notin {Undefined, Null, ""}
    THEN obj.name ELSE fallback

\* projected is the six-field projection of the upstream issue
IsProjectionOf(projected, issue) ==
    LET expected == [key |-> issue.key,
                     summary |-> issue.fields.summary,
                     status |-> issue.fields.status.name,
                     assignee |-> DisplayNameOr(issue.fields.assignee, "Unassigned"),
                     priority |-> NameOr(issue.fields.priority, "None"),
                     reporter |-> DisplayNameOr(issue.fields.reporter, "Unknown")]
    IN /\ DOMAIN projected \subseteq DOMAIN expected
       /\ \A f \in DOMAIN expected :
             IF expected[f] = Undefined THEN f \notin DOMAIN projected
             ELSE f \in DOMAIN projected /\ projected[f] = expected[f]

C25_SearchKeepsUpstreamOrder ==
    \A i \in Invocations :
      (inv[i].tool = "jira_search" /\ inv[i].pc = "done" /\ inv[i].resp.kind = "json") =>
        LET up == UpstreamResult(i)
            out == inv[i].resp.json
        IN /\ out.total = up.total
           /\ out.startAt = up.startAt
           /\ out.maxResults = up.maxResults
           /\ Len(out.issues) = Len(up.issues.items)
           /\ \A k \in 1..Len(out.issues) : IsProjectionOf(out.issues[k], up.issues.items[k])

\* a search has returned two different issues
C25_Witness ==
    \E i \in Invocations :
      /\ inv[i].tool = "jira_search"
      /\ inv[i].pc = "done"
      /\ inv[i].resp.kind = "json"
      /\ Len(inv[i].resp.json.issues) = 2
      /\ inv[i].resp.json.issues[1].key = "PROJ-2"
      /\ inv[i].resp.json.issues[2].key = "PROJ-1"
      /\ inv[i].resp.json.issues[1].assignee = "Unassigned"

(***************************************************************************)
(* C26: the diagnostics log is append-only: under any interleaving of tool *)
(* invocations and log-viewer requests an entry once recorded is never     *)
(* removed or altered, and the log only grows, keeping entries in the      *)
(* order they were recorded.                                               *)
(***************************************************************************)
LogExtended == Len(logs') >= Len(logs) /\ SubSeq(logs', 1, Len(logs)) = logs

C26_LogAppendOnly == [][LogExtended]_vars

\* C26 as amended: every step either extends the log at its end, leaving the
\* recorded entries as they were and in order, or is the log viewer's clear
\* request, which empties the whole log
C26_LogAppendOnlyBetweenClears == [][LogExtended \/ logs' = <<>>]_vars

\* with every level recorded the log begins with the error entry of a finished
\* invocation: its earlier entries were cleared while the request was in flight
C26_Witness ==
    /\ debugLevel = "debug"
    /\ logs # <<>>
    /\ logs[1].level = "error"
    /\ \E i \in Invocations : inv[i].pc = "done" /\ IsFailureResponse(inv[i].resp)

(***************************************************************************)
(* The operations that put a caller's value into the endpoint, called with *)
(* issue keys that hold reserved characters.                               *)
(***************************************************************************)
PathIssueKeys == {"PROJ-1", "PROJ-1/comment", "PROJ-1?expand=changelog"}

PathGetIssueArgs == [issueKey : PathIssueKeys]

PathTransitionArgs == [issueKey : PathIssueKeys, transitionId : {"31"}, comment : {Undefined}]

NextPaths ==
    \/ \E i \in Invocations, args \in PathGetIssueArgs : JiraGetIssue(i, args)
    \/ \E i \in Invocations, reply \in FewIssueReplies : GetIssueResponse(i, reply)
    \/ \E i \in Invocations, raw \in SearchArgs : JiraSearch(i, raw)
    \/ \E i \in Invocations, reply \in FewSearchReplies : SearchResponse(i, reply)
    \/ \E i \in Invocations, args \in PathTransitionArgs : JiraTransitionIssue(i, args)
    \/ \E i \in Invocations, reply \in FewEmptyReplies : TransitionResponse(i, reply)

SpecPaths == Init /\ [][NextPaths]_vars

(***************************************************************************)
(* C27: every caller-supplied value that a client operation interpolates   *)
(* into the endpoint path or query string (JQL text, issueKey) is          *)
(* percent-encoded before the call, so a tool invocation can only address  *)
(* the endpoint of its own operation whatever characters the value holds:  *)
(* between the operation's own prefix and suffix the URL holds no reserved *)
(* character.                                                              *)
(***************************************************************************)
ReservedChars == {" ", "=", "&", "/", "?", "#"}

\* a string as runs of unreserved characters and single reserved characters
Pieces(str) ==
    CASE str = "PROJ-1/comment" -> <<"PROJ-1", "/", "comment">>
      [] str = "PROJ-1?expand=changelog" -> <<"PROJ-1", "?", "expand", "=", "changelog">>
      [] OTHER -> <<str>>

RECURSIVE Flat(_)
Flat(text) == IF text = <<>> THEN <<>> ELSE Pieces(Head(text)) \o Flat(Tail(text))

\* url is the base, the operation's prefix, a value free of reserved
\* characters, and the operation's suffix
AddressesOwnEndpoint(url, prefix, suffix) ==
    LET lead == <<proc.config.JIRA_MCP_URL, "/rest/api/2/">> \o prefix
        flat == Flat(url)
    IN /\ Len(flat) >= Len(lead) + Len(suffix)
       /\ SubSeq(flat, 1, Len(lead)) = lead
       /\ SubSeq(flat, Len(flat) - Len(suffix) + 1, Len(flat)) = suffix
       /\ \A k \in (Len(lead) + 1)..(Len(flat) - Len(suffix)) : flat[k] \notin ReservedChars

SearchAddressesOwnEndpoint ==
    \A n \in 1..Len(requests) :
      LET i == requests[n].inv IN
      inv[i].tool = "jira_search" =>
          AddressesOwnEndpoint(requests[n].url, <<"search?jql=">>,
                               <<"&startAt=", ToString(inv[i].args.startAt),
                                 "&maxResults=", ToString(inv[i].args.maxResults)>>)

C27_ValuesArePercentEncoded ==
    /\ SearchAddressesOwnEndpoint
    /\ \A n \in 1..Len(requests) :
         LET i == requests[n].inv IN
         /\ inv[i].tool = "jira_get_issue" =>
               AddressesOwnEndpoint(requests[n].url, <<"issue/">>, <<>>)
         /\ inv[i].tool = "jira_transition_issue" =>
               AddressesOwnEndpoint(requests[n].url, <<"issue/">>, <<"/transitions">>)

(***************************************************************************)
(* C28: every outbound HTTP call made by any tool targets                  *)
(* {baseURL}/rest/api/2/{endpointPath} and carries the Authorization       *)
(* header "Bearer <token>" built from the credential loaded at startup,    *)
(* with JSON Content-Type and Accept headers; the credential never changes *)
(* after startup.                                                          *)
(***************************************************************************)
CarriesCredential(r) ==
    /\ Len(r.url) >= 3
    /\ r.url[1] = env.JIRA_MCP_URL
    /\ r.url[2] = "/rest/api/2/"
    /\ r.headers.Authorization = <<"Bearer ", env.JIRA_MCP_TOKEN>>
    /\ r.headers.ContentType = "application/json"
    /\ r.headers.Accept = "application/json"

C28_RequestsCarryStartupCredential ==
    [][/\ \A n \in 1..Len(requests') : CarriesCredential(requests'[n])
       /\ proc.phase = "serving" =>
             /\ proc'.config = proc.config
             /\ proc.config.JIRA_MCP_TOKEN = env.JIRA_MCP_TOKEN
             /\ proc.config.JIRA_MCP_URL = env.JIRA_MCP_URL
             /\ env' = env]_vars

\* a create and its follow-up fetch have both been sent
C28_Witness ==
    /\ Len(requests) = 2
    /\ requests[1].method = "POST"
    /\ requests[2].method = "GET"
    /\ CarriesCredential(requests[1])
    /\ CarriesCredential(requests[2])

(***************************************************************************)
(* C29: in --remote mode the log-viewer UI server, started before the MCP  *)
(* transport on the first free port from 8080 upward, never occupies the   *)
(* port configured in JIRA_MCP_PORT, so the HTTP transport can bind its    *)
(* configured port; a failure to start the UI server never aborts startup  *)
(* and only makes get_mcp_ui report the UI as unavailable.                 *)
(***************************************************************************)
UIUnavailableText ==
    <<"MCP Server UI is not available. ", "Check server logs for errors.">>

C29_UIPortLeavesTransportPort ==
    /\ (proc.phase = "serving" /\ proc.transport.transportType = "httpStream"
          /\ ~proc.transport.port.nan /\ proc.uiUrl # <<>>) =>
            proc.uiUrl # <<"http://localhost:", ToString(proc.transport.port.n)>>
    /\ proc.phase = "exited" => MissingRequired \/ ("--remote" \in env.args /\ PortMissing)
    /\ proc.phase = "ui" => \A ui \in UIServerResults : ENABLED UIServerStarted(ui)
    /\ \A i \in Invocations :
          (inv[i].tool = "get_mcp_ui" /\ inv[i].pc = "done") =>
              (inv[i].resp.text = UIUnavailableText <=> proc.uiUrl = <<>>)

(***************************************************************************)
(* C30: in the Node variant's logger, once file logging has been disabled  *)
(* (logFile set to null at construction or after a failed append) it is    *)
(* never re-enabled for the rest of the process and no further file write  *)
(* is attempted; a file-write failure never propagates out of log() to the *)
(* tool handler that was logging: the step in which an append fails makes  *)
(* that one attempt, warns on stderr, records its entries and gives the    *)
(* tool's own outcome.                                                     *)
(***************************************************************************)
FileLoggingOff(p) == p.logFile = Null

AppendFailed == ~FileLoggingOff(proc) /\ proc.logFile # Undefined /\ FileLoggingOff(proc')

\* how the messages of a tool's own failures begin: configuration, transport,
\* upstream status, unreadable result
OwnFailures ==
    {"Missing required environment variables: ", "Connection refused",
     "JIRA API error: ", "Cannot read properties of "}

C30_FileLoggingStaysOff ==
    [][/\ FileLoggingOff(proc) =>
             /\ FileLoggingOff(proc')
             /\ proc'.appends = proc.appends
             /\ proc'.files = proc.files
       /\ AppendFailed =>
             /\ proc'.appends = proc.appends + 1
             /\ proc'.files = proc.files
             /\ InSeq(proc'.stderr, WriteFailedWarning)
             /\ Len(logs') > Len(logs)
             /\ \A i \in Invocations :
                   /\ inv'[i].pc \in {"idle", "fetch", "done"}
                   /\ inv'[i].resp.kind \in {"none", "text", "error"}
                   /\ inv'[i].resp.kind = "error" =>
                         inv'[i].resp.message[1] \in OwnFailures
      ]_vars

\* file logging was switched off by a failed append, both directories are
\* writable again, and tool calls have logged since without a file write
C30_Witness ==
    /\ FileLoggingOff(proc)
    /\ proc.appends >= 1
    /\ env.cwd /\ env.tmp
    /\ Len(logs) >= Len(proc.files.cwd) + Len(proc.files.tmp) + 4
    /\ \E i \in Invocations : inv[i].pc = "done" /\ inv[i].calls = MaxNodeCalls

====
